---------------------------- MODULE Spec2Model ----------------------------
(***************************************************************************)
(* The response resolution pipeline of Einstein's Universe:                *)
(* src/services/geminiService.ts (static archive resolver, persistent      *)
(* cache, generation dispatcher, diagnostic log) and the turn handler of   *)
(* src/App.tsx that drives it.                                             *)
(*                                                                         *)
(* Text values are interned: the state holds the name of a text (a TLA+    *)
(* string such as "GenTagged") and Chars gives its characters, on which    *)
(* the string operations of the code (trim, startsWith, includes, match,   *)
(* length) are computed.                                                   *)
(***************************************************************************)
EXTENDS Integers, Sequences, FiniteSets, TLC

\* ------------------------------------------------------------------ bounds
\* conversation turns (handleAction calls) per run when the user acts freely
MaxTurns == 2
\* turns per run when the user repeats one chapter start and one follow-up
MaxRepeatTurns == 4
\* failures the environment may inject per run (backend throws, empty or short
\* answers, responses without image data, store failures)
MaxFaults == 1
\* playSpeech calls per run
MaxPlays == 2
\* failures the speech backend may inject per run
MaxSpeechFaults == 1
\* log entries appended per run when the log alone is exercised
MaxAppends == 102
\* largest blob size (in bytes) drawn for isValidImage
MaxBlobSize == 12

\* --------------------------------------------------- literals of the code
PLACEHOLDER ==
    <<"A", "c", "h", ",", " ", "z", "e", " ", "u", "n", "i", "v", "e", "r", "s", "e",
      " ", "r", "e", "m", "a", "i", "n", "s", " ", "a", " ", "m", "y", "s", "t", "e",
      "r", "y", ".">>

FALLBACK_SKETCH ==
    <<"A", " ", "c", "h", "a", "l", "k", "b", "o", "a", "r", "d", " ", "c", "a", "l",
      "c", "u", "l", "a", "t", "i", "o", "n", " ", "u", "n", "d", " ", "s", "k", "e",
      "t", "c", "h", " ", "a", "b", "o", "u", "t", ":", " ">>

IMAGE_TAG ==
    <<"[", "I", "M", "A", "G", "E", ":", " ">>

DISCUSSION_PREFIX ==
    <<"e", "i", "n", "s", "t", "e", "i", "n", "-", "d", "i", "s", "c", "u", "s", "s",
      "i", "o", "n", "-">>

DIAGRAM_PREFIX ==
    <<"e", "i", "n", "s", "t", "e", "i", "n", "-", "d", "i", "a", "g", "r", "a", "m",
      "-">>

TXT_EXT ==
    <<".", "t", "x", "t">>

JPG_EXT ==
    <<".", "j", "p", "g">>

TEXT_HTML ==
    <<"t", "e", "x", "t", "/", "h", "t", "m", "l">>

HTML_TAG ==
    <<"<", "h", "t", "m", "l">>

DOCTYPE_MARK ==
    <<"<", "!">>

UPPER ==
    <<"A", "B", "C", "D", "E", "F", "G", "H", "I", "J", "K", "L", "M", "N", "O", "P",
      "Q", "R", "S", "T", "U", "V", "W", "X", "Y", "Z">>

LOWER ==
    <<"a", "b", "c", "d", "e", "f", "g", "h", "i", "j", "k", "l", "m", "n", "o", "p",
      "q", "r", "s", "t", "u", "v", "w", "x", "y", "z">>

\* ------------------------------------------- stand-ins for program data
\* The chapter prompts of src/constants.ts are abbreviated; each keeps its
\* [IMAGE: ...] directive. The other texts are sample user input, backend
\* answers, archive files and content-type headers.
IntroPromptChars ==
    <<"I", "n", "t", "r", "o", "d", "u", "c", "e", " ", "z", "e", " ", "e", "x", "p",
      "e", "r", "i", "e", "n", "c", "e", ".", " ", "G", "e", "n", "e", "r", "a", "t",
      "e", " ", "a", " ", "[", "I", "M", "A", "G", "E", ":", " ", "E", "i", "n", "s",
      "t", "e", "i", "n", "]", ".">>

FoundPromptChars ==
    <<"D", "i", "s", "c", "u", "s", "s", " ", "z", "e", " ", "F", "o", "u", "n", "d",
      "a", "t", "i", "o", "n", "s", ".", " ", "G", "e", "n", "e", "r", "a", "t", "e",
      " ", "a", " ", "[", "I", "M", "A", "G", "E", ":", " ", "p", "y", "r", "a", "m",
      "i", "d", "s", "]", " ", "t", "a", "g", ".">>

WhyZeroChars ==
    <<"W", "h", "y", " ", "i", "s", " ", "z", "e", "r", "o", " ", "s", "o", " ", "p",
      "o", "w", "e", "r", "f", "u", "l", "?">>

GenTaggedChars ==
    <<"J", "a", "!", " ", "Z", "e", "r", "o", " ", "i", "s", " ", "z", "e", " ", "v",
      "o", "i", "d", ".", " ", "[", "I", "M", "A", "G", "E", ":", " ", "e", "m", "p",
      "t", "y", " ", "p", "o", "c", "k", "e", "t", "]">>

GenShortChars ==
    <<"J", "a", "!">>

ArchiveTextChars ==
    <<"E", "I", "N", "S", "T", "E", "I", "N", ":", " ", "M", "y", " ", "d", "e", "a",
      "r", " ", "f", "r", "i", "e", "n", "d", ",", " ", "w", "e", "l", "c", "o", "m",
      "e", "!", "\n", "\n", "Z", "e", "r", "o", ".">>

HtmlDocChars ==
    <<"<", "!", "D", "O", "C", "T", "Y", "P", "E", " ", "h", "t", "m", "l", ">", "<",
      "t", "i", "t", "l", "e", ">", "A", "p", "p", "<", "/", "t", "i", "t", "l", "e",
      ">">>

HtmlTagChars ==
    <<" ", "\n", "<", "H", "T", "M", "L", ">", "<", "b", "o", "d", "y", ">", "A", "p",
      "p", "<", "/", "b", "o", "d", "y", ">", "<", "/", "H", "T", "M", "L", ">">>

HtmlHeadChars ==
    <<"<", "h", "e", "a", "d", ">", "<", "t", "i", "t", "l", "e", ">", "A", "p", "p",
      "<", "/", "t", "i", "t", "l", "e", ">", "<", "/", "h", "e", "a", "d", ">">>

\* a payload of exactly five characters
HalloChars ==
    <<"H", "a", "l", "l", "o">>

TinyChars ==
    <<" ", "N", "o", "t", " ", "f", "o", "u", "n", "d", "\n">>

CtHtmlChars ==
    <<"t", "e", "x", "t", "/", "h", "t", "m", "l">>

CtHtmlUtfChars ==
    <<"T", "e", "x", "t", "/", "H", "T", "M", "L", ";", " ", "c", "h", "a", "r", "s",
      "e", "t", "=", "U", "T", "F", "-", "8">>

CtPlainChars ==
    <<"t", "e", "x", "t", "/", "p", "l", "a", "i", "n">>

CtJpegChars ==
    <<"i", "m", "a", "g", "e", "/", "j", "p", "e", "g">>

EraIntroChars ==
    <<"I", "n", "t", "r", "o", "d", "u", "c", "t", "i", "o", "n">>

EraFoundChars ==
    <<"F", "o", "u", "n", "d", "a", "t", "i", "o", "n", "s">>

EraZeroChars ==
    <<"T", "h", "e", " ", "O", "r", "i", "g", "i", "n", "s", " ", "o", "f", " ", "Z",
      "e", "r", "o">>

\* the characters of an interned text
Chars(t) ==
    CASE t = "" -> <<>>
      [] t = "Placeholder" -> PLACEHOLDER
      [] t = "Hallo" -> HalloChars
      [] t = "IntroPrompt" -> IntroPromptChars
      [] t = "FoundPrompt" -> FoundPromptChars
      [] t = "WhyZero" -> WhyZeroChars
      [] t = "GenTagged" -> GenTaggedChars
      [] t = "GenShort" -> GenShortChars
      [] t = "ArchiveText" -> ArchiveTextChars
      [] t = "HtmlDoc" -> HtmlDocChars
      [] t = "HtmlTag" -> HtmlTagChars
      [] t = "HtmlHead" -> HtmlHeadChars
      [] t = "Tiny" -> TinyChars
      [] t = "text/html" -> CtHtmlChars
      [] t = "Text/HTML; charset=UTF-8" -> CtHtmlUtfChars
      [] t = "text/plain" -> CtPlainChars
      [] t = "image/jpeg" -> CtJpegChars
      [] t = "Introduction" -> EraIntroChars
      [] t = "Foundations" -> EraFoundChars
      [] t = "The Origins of Zero" -> EraZeroChars

\* src/constants.ts: the chapters (two of the nine are modelled)
CHAPTERS ==
    << [id |-> "Introduction", prompt |-> "IntroPrompt"],
       [id |-> "Foundations", prompt |-> "FoundPrompt"] >>

NULL == "null"

\* ------------------------------------------------------ string operations
MinOf(S) == CHOOSE x \in S : \A y \in S : x <= y

MaxOf(S) == CHOOSE x \in S : \A y \in S : x >= y

startsWith(s, p) == Len(s) >= Len(p) /\ SubSeq(s, 1, Len(p)) = p

includes(s, p) == \E i \in 1..(Len(s) - Len(p) + 1) : SubSeq(s, i, i + Len(p) - 1) = p

LowerChar(c) ==
    IF \E k \in 1..Len(UPPER) : UPPER[k] = c
    THEN LOWER[CHOOSE k \in 1..Len(UPPER) : UPPER[k] = c]
    ELSE c

toLowerCase(s) == [i \in 1..Len(s) |-> LowerChar(s[i])]

IsSpace(c) == c \in {" ", "\n", "\t", "\r"}

trim(s) ==
    LET keep == {i \in 1..Len(s) : ~IsSpace(s[i])}
    IN  IF keep = {} THEN <<>> ELSE SubSeq(s, MinOf(keep), MaxOf(keep))

\* s.replace(/\s+/g, '')
stripSpaces(s) == SelectSeq(s, LAMBDA c : ~IsSpace(c))

\* s.substring(0, n)
substring0(s, n) == SubSeq(s, 1, IF n < Len(s) THEN n ELSE Len(s))

\* s.match(/\[IMAGE: (.*?)\]/): the first "[IMAGE: " that is closed by a "]"
\* before any line break; the group is the shortest such capture
imageMatch(s) ==
    LET stops(i) == {j \in (i + Len(IMAGE_TAG))..Len(s) : s[j] \in {"]", "\n", "\r"}}
        opens == {i \in 1..Len(s) :
                    /\ i + Len(IMAGE_TAG) - 1 <= Len(s)
                    /\ SubSeq(s, i, i + Len(IMAGE_TAG) - 1) = IMAGE_TAG
                    /\ stops(i) # {}
                    /\ s[MinOf(stops(i))] = "]"}
    IN  IF opens = {}
        THEN [found |-> FALSE, group |-> <<>>]
        ELSE LET i == MinOf(opens)
             IN  [found |-> TRUE,
                  group |-> SubSeq(s, i + Len(IMAGE_TAG), MinOf(stops(i)) - 1)]

\* ------------------------------------------------------------ isValidImage
\* A blob is its size and its first bytes (blob.slice(0, 4)); byte i of the
\* header is undefined (-1) when the blob is shorter.
Byte(blob, i) == IF i <= Len(blob.head) THEN blob.head[i] ELSE -1

\* isValidImage without the size test
isValidImage_NoSizeCheck(blob) ==
    \/ Byte(blob, 1) = 255 /\ Byte(blob, 2) = 216 /\ Byte(blob, 3) = 255
    \/ Byte(blob, 1) = 137 /\ Byte(blob, 2) = 80 /\ Byte(blob, 3) = 78 /\ Byte(blob, 4) = 71

isValidImage(blob) ==
    IF blob.size < 10 THEN FALSE
    ELSE \/ Byte(blob, 1) = 255 /\ Byte(blob, 2) = 216 /\ Byte(blob, 3) = 255
         \/ Byte(blob, 1) = 137 /\ Byte(blob, 2) = 80 /\ Byte(blob, 3) = 78 /\ Byte(blob, 4) = 71

\* ------------------------------------------------------------------ state
VARIABLES
    \* src/App.tsx, EinsteinApp: React state and refs
    messages, currentEra, isLoading, isImageLoading, lastImage, hasStarted,
    abortController,
    \* src/services/geminiService.ts: module state; store is the content of the
    \* IndexedDB object store, objectUrls counts the URLs createObjectURL made
    performanceLogs, dbInstance, store, objectUrls,
    \* the deployment: window.location.pathname and what the origin serves
    env,
    \* the handleAction call in flight and the two asynchronous calls it awaits
    turn, textTask, imageTask,
    \* what the request in flight has done so far (stages consulted, calls made)
    obs,
    \* the run so far: turns started, failures injected, texts generated live
    run,
    \* how the user drives the conversation: "free" (any action, MaxTurns turns)
    \* or "repeat" (one chapter start and a follow-up, again and again)
    user,
    \* input and output of the operation applied by the single-operation
    \* specifications (SpecStatic, SpecImage, SpecCache)
    probe,
    \* src/App.tsx, EinsteinApp: the narration refs and state. activeSources
    \* holds the buffer sources started and not yet ended or stopped,
    \* currentlySpeakingId is {} for null and {idx} for a message index, and
    \* audioContext the state of audioContextRef.current ("none" before the
    \* first narration)
    speechSessionId, activeSources, isAudioPlaying, isSpeechLoading,
    currentlySpeakingId, audioContext,
    \* the playSpeech calls in flight, each with the session it captured, and
    \* what the speech service has been asked so far
    narrations, heard

vars == << messages, currentEra, isLoading, isImageLoading, lastImage, hasStarted,
           abortController, performanceLogs, dbInstance, store, objectUrls, env,
           turn, textTask, imageTask, obs, run, user, probe,
           speechSessionId, activeSources, isAudioPlaying, isSpeechLoading,
           currentlySpeakingId, audioContext, narrations, heard >>

audioVars == << speechSessionId, activeSources, isAudioPlaying, isSpeechLoading,
                currentlySpeakingId, audioContext, narrations, heard >>

appVars == << messages, currentEra, isLoading, isImageLoading, lastImage, hasStarted,
              abortController >>

\* ------------------------------------------------------------ addLog
\* A log entry is its type, label and status (id, timestamp, duration and
\* message are not modelled).
LogEntry(type, label, status) == [type |-> type, label |-> label, status |-> status]

\* a log that is never truncated
addLog_Unbounded(logs, entry) == <<entry>> \o logs

\* performanceLogs = [newLog, ...performanceLogs].slice(0, 100)
addLog(logs, entry) == SubSeq(<<entry>> \o logs, 1, IF Len(logs) + 1 < 100 THEN Len(logs) + 1 ELSE 100)

\* ------------------------------------------------- getFromStaticServer
NoBlob == [size |-> 0, head |-> <<>>]

NoUrl == [dirs |-> <<>>, name |-> <<>>]

Range(f) == {f[i] : i \in DOMAIN f}

\* A pathname is its directories and its last segment ("" when it ends with "/").
\* Both branches of basePath yield the directories: the pathname itself when it
\* ends with "/", and the pathname without its last segment otherwise.
basePath(pathname) == pathname.dirs

namesToTry(type, eraKey) ==
    LET prefix == IF type = "text" THEN DISCUSSION_PREFIX ELSE DIAGRAM_PREFIX
        extension == IF type = "text" THEN TXT_EXT ELSE JPG_EXT
        noSpaceKey == stripSpaces(Chars(eraKey))
    IN  << prefix \o noSpaceKey \o extension,
           prefix \o toLowerCase(noSpaceKey) \o extension >>

\* a resolver that tries the app's own directory before the root
trialUrls_BaseFirst(type, eraKey, pathname) ==
    LET dirName == IF type = "text" THEN "text" ELSE "images"
        names == namesToTry(type, eraKey)
        fromRoot(n) == [dirs |-> <<dirName>>, name |-> n]
        fromBase(n) == [dirs |-> basePath(pathname) \o <<dirName>>, name |-> n]
    IN  << fromBase(names[1]), fromRoot(names[1]), fromBase(names[2]), fromRoot(names[2]) >>

\* An absolute URL of the origin is its directories and its file name.
trialUrls(type, eraKey, pathname) ==
    LET dirName == IF type = "text" THEN "text" ELSE "images"
        names == namesToTry(type, eraKey)
        fromRoot(n) == [dirs |-> <<dirName>>, name |-> n]
        fromBase(n) == [dirs |-> basePath(pathname) \o <<dirName>>, name |-> n]
    IN  << fromRoot(names[1]), fromBase(names[1]), fromRoot(names[2]), fromBase(names[2]) >>

\* a content test that compares the html tag as it is written
looksLikeDiscussion_CaseSensitive(text) ==
    LET trimmed == trim(text)
    IN  /\ Len(trimmed) > 10
        /\ ~startsWith(trimmed, DOCTYPE_MARK)
        /\ ~startsWith(trimmed, HTML_TAG)

\* the content test of a text candidate (geminiService.ts:124-127)
looksLikeDiscussion(text) ==
    LET trimmed == trim(text)
    IN  /\ Len(trimmed) > 10
        /\ ~startsWith(trimmed, DOCTYPE_MARK)
        /\ ~startsWith(toLowerCase(trimmed), HTML_TAG)

\* a resolver that ignores the content-type header
isHtmlType_Never(ctype) == FALSE

isHtmlType(ctype) == includes(toLowerCase(Chars(ctype)), TEXT_HTML)

\* A response is a network error (err) or a status (ok), a content-type header
\* ("" when absent) and a body, read as text or as a blob.
\* The loop over trialUrls from position i on; tried holds the URLs fetched.
RECURSIVE tryFrom(_, _, _, _, _)
tryFrom(type, urls, i, tried, fetch) ==
    IF i > Len(urls)
    THEN [hit |-> FALSE, text |-> NULL, blob |-> NoBlob, url |-> NoUrl, tried |-> tried]
    ELSE LET absoluteUrl == urls[i]
             response == fetch[absoluteUrl]
             tried2 == Append(tried, absoluteUrl)
             next == tryFrom(type, urls, i + 1, tried2, fetch)
         IN  IF absoluteUrl \in Range(tried) THEN tryFrom(type, urls, i + 1, tried, fetch)
             ELSE IF response.err THEN next
             ELSE IF ~response.ok THEN next
             ELSE IF type = "text"
                  THEN IF isHtmlType(response.ctype) THEN next
                       ELSE IF looksLikeDiscussion(Chars(response.text))
                            THEN [hit |-> TRUE, text |-> response.text, blob |-> NoBlob,
                                  url |-> absoluteUrl, tried |-> tried2]
                            ELSE next
                  ELSE IF isValidImage(response.blob)
                       THEN [hit |-> TRUE, text |-> NULL, blob |-> response.blob,
                             url |-> absoluteUrl, tried |-> tried2]
                       ELSE next

\* a resolver that logs a miss as it logs a hit
getFromStaticServer_MissAsHit(type, eraKey, pathname, fetch) ==
    LET r == tryFrom(type, trialUrls(type, eraKey, pathname), 1, <<>>, fetch)
    IN  [hit |-> r.hit, text |-> r.text, blob |-> r.blob, url |-> r.url, tried |-> r.tried,
         log |-> LogEntry("CACHE_DB", "SERVER HIT", "CACHE_HIT"),
         names |-> << r.url >>]

\* The outcome of one call: hit, the text or blob of the matched candidate, its
\* URL, the URLs fetched in order, the one log entry the call appends, and the
\* URLs the message of that entry names (`Loaded ... from ${absoluteUrl}`, or
\* `Tried: ${tried.slice(0, 2).join(' , ')}`).
getFromStaticServer(type, eraKey, pathname, fetch) ==
    LET r == tryFrom(type, trialUrls(type, eraKey, pathname), 1, <<>>, fetch)
    IN  [hit |-> r.hit, text |-> r.text, blob |-> r.blob, url |-> r.url, tried |-> r.tried,
         log |-> IF r.hit THEN LogEntry("CACHE_DB", "SERVER HIT", "CACHE_HIT")
                          ELSE LogEntry("SYSTEM", "SERVER MISS", "ERROR"),
         names |-> IF r.hit THEN << r.url >>
                   ELSE SubSeq(r.tried, 1, MinOf({2, Len(r.tried)}))]

\* ------------------------------------------------ persistent cache
\* `discovery_v12_${category}_${key}`: category and key are sequences of
\* characters, joined into one string
storageKey(category, key) == << "discovery_v12", "_" >> \o category \o << "_" >> \o key

\* the one category the text pipeline uses
TEXT == << "t", "e", "x", "t" >>

\* JSON.stringify(history): each entry is its role and its text, in order
JSONstringify(history) == [i \in 1..Len(history) |-> << history[i].role, history[i].text >>]

\* The first 32 hex digits of SHA-256(input), kept as one symbol of the key
\* string. The digest is taken to be free of collisions, so the symbol stands
\* for the input it was computed from; the input is the prompt followed by the
\* serialized history.
generateCacheKey(input) == << [sha256 |-> input] >>

textCacheKey(prompt, history) == generateCacheKey(<< prompt >> \o JSONstringify(history))

\* openDB: the handle is kept once an open succeeded; idb is "ok" or "fail"
\* (the open request errors, or the transaction throws)
openDB(db, idb) == db \/ idb = "ok"

\* a cache that answers from memory when the store fails
getFromCache_IgnoreFailure(st, category, key, idb) ==
    LET k == storageKey(category, key)
    IN  IF k \in DOMAIN st /\ st[k] # "" THEN st[k] ELSE NULL

\* a cache that never returns an entry
getFromCache_Absent(st, category, key, idb) == NULL

\* request.result || null
getFromCache(st, category, key, idb) ==
    LET k == storageKey(category, key)
    IN  IF idb = "fail" THEN NULL
        ELSE IF k \in DOMAIN st /\ st[k] # "" THEN st[k] ELSE NULL

\* a cache that never stores
saveToCache_Dropped(st, category, key, data, idb) == st

\* saveToCache without the test of the payload
saveToCache_NoGuard(st, category, key, data, idb) ==
    LET k == storageKey(category, key)
    IN  IF idb = "fail" THEN st
        ELSE [x \in DOMAIN st \cup {k} |-> IF x = k THEN data ELSE st[x]]

saveToCache(st, category, key, data, idb) ==
    LET k == storageKey(category, key)
    IN  IF data = "" \/ Len(Chars(data)) < 5 THEN st
        ELSE IF idb = "fail" THEN st
        ELSE [x \in DOMAIN st \cup {k} |-> IF x = k THEN data ELSE st[x]]

\* whether saveToCache reaches openDB
saveOpens(data) == ~(data = "" \/ Len(Chars(data)) < 5)

\* ------------------------------------------------------- environment
HtmlBlob == [size |-> 33, head |-> << 60, 33, 68, 79 >>]

JpegBlob == [size |-> 2048, head |-> << 255, 216, 255, 224 >>]

Http404 == [err |-> FALSE, ok |-> FALSE, ctype |-> "text/html", text |-> "HtmlDoc", blob |-> HtmlBlob]

\* the page a single-page host answers with for any unknown path
Soft404 == [err |-> FALSE, ok |-> TRUE, ctype |-> "Text/HTML; charset=UTF-8",
            text |-> "HtmlHead", blob |-> HtmlBlob]

TextFile == [err |-> FALSE, ok |-> TRUE, ctype |-> "text/plain", text |-> "ArchiveText", blob |-> NoBlob]

ImageFile == [err |-> FALSE, ok |-> TRUE, ctype |-> "image/jpeg", text |-> "", blob |-> JpegBlob]

\* The app is served from /app/index.html. An archive that is "present" holds
\* its files under the app's own directory with lower-case names (the last
\* candidate tried); every other path answers as the deployment's kind says.
AppPathname == [dirs |-> << "app" >>, file |-> "index.html"]

Deployments ==
    [pathname : {AppPathname},
     text : {"present", "soft404", "missing"},
     images : {"present", "missing"}]

\* the deployment narration is followed on: the archive complete
ListenerDeployments ==
    {d \in Deployments : d.text = "present" /\ d.images = "present"}

originFetch(type, eraKey, deployment) ==
    LET urls == trialUrls(type, eraKey, deployment.pathname)
        kind == IF type = "text" THEN deployment.text ELSE deployment.images
        other == IF kind = "missing" THEN Http404 ELSE Soft404
    IN  [u \in Range(urls) |->
            IF kind = "present" /\ u = urls[4]
            THEN (IF type = "text" THEN TextFile ELSE ImageFile)
            ELSE other]

\* getFromStaticServer on every lookup the pipeline can issue, tabulated
\* (f @@ <<>> is f, evaluated once for its whole domain)
staticLookup ==
    [x \in {"text", "images"} \X {CHAPTERS[i].id : i \in 1..Len(CHAPTERS)} \X Deployments |->
        getFromStaticServer(x[1], x[2], x[3].pathname, originFetch(x[1], x[2], x[3]))] @@ <<>>

\* what the text backend may answer: a text, or "throw" (the call rejects)
TextAnswers(faulty) == IF faulty THEN {"throw", "", "GenShort"} ELSE {"GenTagged"}

\* what the image backend may answer
ImageAnswers(faulty) == IF faulty THEN {"throw", "nodata"} ELSE {"data"}

\* ------------------------------------------------------------ frames
NoImage == [kind |-> "null", id |-> 0]

\* `data:${mimeType};base64,${data}`
DataUrl == [kind |-> "data", id |-> 0]

\* URL.createObjectURL(blob): a new URL on every call, the n-th one made
ObjectUrl(n) == [kind |-> "blob", id |-> n]

IdleTurn ==
    [pc |-> "idle", signal |-> 0, prompt |-> "", era |-> NULL, isNewEra |-> FALSE,
     parallel |-> FALSE]

IdleText == [pc |-> "idle", prompt |-> "", history |-> <<>>, eraKey |-> NULL, value |-> NULL]

IdleImage == [pc |-> "idle", description |-> <<>>, eraKey |-> NULL, value |-> NoImage]

NoPrev == [era |-> NULL, isNewEra |-> FALSE, text |-> NULL, image |-> NoImage,
           messages |-> <<>>, currentEra |-> "Introduction"]

NoObs ==
    [stages |-> <<>>, textCalls |-> 0, imageCalls |-> 0, cacheWrites |-> 0,
     emptyAtStart |-> TRUE, known |-> {}, matched |-> NoUrl, text |-> NULL,
     prev |-> NoPrev]

NoProbe == [op |-> "none"]

Stage(name, hit, failed) == [stage |-> name, hit |-> hit, failed |-> failed]

\* the injected failures still allowed
FaultsLeft == MaxFaults - run.faults

StoreOutcomes == IF FaultsLeft > 0 THEN {"ok", "fail"} ELSE {"ok"}

Cost(faulty) == IF faulty THEN 1 ELSE 0

\* --------------------------------------------- generateEinsteinResponse
\* a pipeline that knows no chapter but the one it is given
activeEraKey_Given(prompt, eraKey) == eraKey

\* activeEraKey: the key given, or the chapter whose prompt equals the prompt
activeEraKey(prompt, eraKey) ==
    IF eraKey # NULL THEN eraKey
    ELSE IF \E i \in 1..Len(CHAPTERS) : CHAPTERS[i].prompt = prompt
         THEN CHAPTERS[CHOOSE i \in 1..Len(CHAPTERS) :
                          /\ CHAPTERS[i].prompt = prompt
                          /\ \A j \in 1..(i - 1) : CHAPTERS[j].prompt # prompt].id
         ELSE NULL

\* the call up to its first await
startText(prompt, history, eraKey) ==
    [pc |-> IF activeEraKey(prompt, eraKey) # NULL THEN "static" ELSE "cache",
     prompt |-> prompt, history |-> history,
     eraKey |-> activeEraKey(prompt, eraKey), value |-> NULL]

\* a pipeline that goes on to the cache after a static hit
afterStatic_NoReturn(staticResult) == "cache"

\* if (staticResult) return staticResult;
afterStatic(staticResult) == IF staticResult # NULL /\ staticResult # "" THEN "resolved" ELSE "cache"

\* a pipeline that goes on to generation after a cache hit
afterCache_NoReturn(cached) == "generate"

\* if (cached) { ...; return cached; }
afterCache(cached) == IF cached # NULL /\ cached # "" THEN "resolved" ELSE "generate"

\* Priority 1: the static archive
TextStaticLookup ==
    /\ textTask.pc = "static"
    /\ LET r == staticLookup[<< "text", textTask.eraKey, env >>]
       IN  /\ performanceLogs' = addLog(performanceLogs, r.log)
           /\ textTask' = [textTask EXCEPT !.pc = afterStatic(r.text), !.value = r.text]
           /\ obs' = [obs EXCEPT !.stages = Append(@, Stage("STATIC", r.hit, FALSE)),
                                 !.matched = r.url]
    /\ UNCHANGED << appVars, dbInstance, store, objectUrls, env, turn, imageTask, run, user, probe, audioVars >>

\* Priority 2: the local IndexedDB cache
TextCacheLookup ==
    /\ textTask.pc = "cache"
    /\ \E idb \in StoreOutcomes :
          LET cacheKey == textCacheKey(textTask.prompt, textTask.history)
              cached == getFromCache(store, TEXT, cacheKey, idb)
              pc2 == afterCache(cached)
          IN  /\ dbInstance' = openDB(dbInstance, idb)
              /\ performanceLogs' =
                    IF pc2 = "resolved"
                    THEN addLog(performanceLogs, LogEntry("CACHE_DB", "LOCAL HIT", "CACHE_HIT"))
                    ELSE performanceLogs
              /\ textTask' = [textTask EXCEPT !.pc = pc2, !.value = cached]
              /\ obs' = [obs EXCEPT
                           !.stages = Append(@, Stage("CACHE", cached # NULL, idb = "fail"))]
              /\ run' = [run EXCEPT !.faults = @ + Cost(idb = "fail"),
                                    !.storeFailed = @ \/ idb = "fail",
                                    !.opens = @ + Cost(~dbInstance)]
    /\ UNCHANGED << appVars, store, objectUrls, env, turn, imageTask, user, probe, audioVars >>

\* Priority 3: the text backend
TextGenerate ==
    /\ textTask.pc = "generate"
    /\ \E faulty \in BOOLEAN, idb \in StoreOutcomes :
       \E answer \in TextAnswers(faulty) :
          LET cacheKey == textCacheKey(textTask.prompt, textTask.history)
              text == IF answer = "" THEN "Placeholder" ELSE answer
              store2 == saveToCache(store, TEXT, cacheKey, text, idb)
          IN  /\ Cost(faulty) + Cost(idb = "fail") <= FaultsLeft
              /\ idb = "fail" => answer # "throw" /\ saveOpens(text)
              /\ IF answer = "throw"
                 THEN /\ performanceLogs' =
                            addLog(performanceLogs, LogEntry("ERROR", "GEMINI ERROR", "ERROR"))
                      /\ textTask' = [textTask EXCEPT !.pc = "rejected", !.value = NULL]
                      /\ obs' = [obs EXCEPT !.stages = Append(@, Stage("LIVE", FALSE, FALSE)),
                                            !.textCalls = @ + 1]
                      /\ run' = [run EXCEPT !.faults = @ + 1]
                      /\ UNCHANGED << store, dbInstance >>
                 ELSE /\ store' = store2
                      /\ dbInstance' = IF saveOpens(text) THEN openDB(dbInstance, idb)
                                       ELSE dbInstance
                      /\ performanceLogs' =
                            addLog(performanceLogs, LogEntry("AI_TEXT", "GEMINI TEXT", "SUCCESS"))
                      /\ textTask' = [textTask EXCEPT !.pc = "resolved", !.value = text]
                      /\ obs' = [obs EXCEPT
                                   !.stages = Append(@, Stage("LIVE", TRUE, idb = "fail")),
                                   !.textCalls = @ + 1,
                                   !.cacheWrites = @ + Cost(saveOpens(text) /\ idb = "ok")]
                      /\ run' = [run EXCEPT
                                   !.faults = @ + Cost(faulty) + Cost(idb = "fail"),
                                   !.storeFailed = @ \/ idb = "fail",
                                   !.opens = @ + Cost(saveOpens(text) /\ ~dbInstance),
                                   !.live = @ \cup {[key |-> storageKey(TEXT, cacheKey), text |-> text,
                                                     followUp |-> turn.era = NULL]}]
    /\ UNCHANGED << appVars, objectUrls, env, turn, imageTask, user, probe, audioVars >>

\* ---------------------------------------------- generateChalkboardImage
\* an image call that never consults the archive
startImage_NoArchive(description, eraKey) ==
    [pc |-> "generate", description |-> description, eraKey |-> eraKey, value |-> NoImage]

\* the call up to its first await
startImage(description, eraKey) ==
    [pc |-> IF eraKey # NULL THEN "static" ELSE "generate",
     description |-> description, eraKey |-> eraKey, value |-> NoImage]

\* the static diagram of the chapter
ImageStaticLookup ==
    /\ imageTask.pc = "static"
    /\ LET r == staticLookup[<< "images", imageTask.eraKey, env >>]
       IN  /\ performanceLogs' = addLog(performanceLogs, r.log)
           /\ objectUrls' = IF r.hit THEN objectUrls + 1 ELSE objectUrls
           /\ imageTask' = IF r.hit
                           THEN [imageTask EXCEPT !.pc = "resolved",
                                                  !.value = ObjectUrl(objectUrls + 1)]
                           ELSE [imageTask EXCEPT !.pc = "generate"]
    /\ UNCHANGED << appVars, dbInstance, store, env, turn, textTask, obs, run, user, probe, audioVars >>

\* the image backend: a part with inline data, no such part, or a rejection
ImageGenerate ==
    /\ imageTask.pc = "generate"
    /\ \E faulty \in BOOLEAN :
       \E answer \in ImageAnswers(faulty) :
          /\ Cost(faulty) <= FaultsLeft
          /\ performanceLogs' =
                CASE answer = "data" ->
                        addLog(performanceLogs, LogEntry("AI_IMAGE", "GEMINI IMAGE", "SUCCESS"))
                  [] answer = "throw" ->
                        addLog(performanceLogs, LogEntry("ERROR", "IMAGE ERROR", "ERROR"))
                  [] answer = "nodata" -> performanceLogs
          /\ imageTask' = [imageTask EXCEPT
                             !.pc = "resolved",
                             !.value = IF answer = "data" THEN DataUrl ELSE NoImage]
          /\ obs' = [obs EXCEPT !.imageCalls = @ + 1]
          /\ run' = [run EXCEPT !.faults = @ + Cost(faulty)]
    /\ UNCHANGED << appVars, dbInstance, store, objectUrls, env, turn, textTask, user, probe, audioVars >>

\* ------------------------------------------------------- handleAction
chapterOf(era) == CHOOSE i \in 1..Len(CHAPTERS) : CHAPTERS[i].id = era

\* [...messages].map(m => ({ role: ..., parts: [{ text: m.text }] }))
historyOf(msgs) ==
    [i \in 1..Len(msgs) |->
        [role |-> IF msgs[i].role = "einstein" THEN "model" ELSE "user",
         text |-> msgs[i].text]]

\* the directive of the chapter's prompt, when a chapter is given
\* every text a directive is looked for in: chapter prompts and replies
Texts ==
    {CHAPTERS[i].prompt : i \in 1..Len(CHAPTERS)}
        \cup {"GenTagged", "GenShort", "ArchiveText", "Placeholder"}

\* imageMatch on each of them, tabulated
directiveOf == [t \in Texts |-> imageMatch(Chars(t))] @@ <<>>

\* a turn that never starts the image of a chapter ahead of its text
eraMatch_None(eraToSet) == [found |-> FALSE, group |-> <<>>]

eraMatch(eraToSet) ==
    IF eraToSet # NULL /\ \E i \in 1..Len(CHAPTERS) : CHAPTERS[i].id = eraToSet
    THEN directiveOf[CHAPTERS[chapterOf(eraToSet)].prompt]
    ELSE [found |-> FALSE, group |-> <<>>]

\* the turns of a listener: "Enter Laboratory", one question, and on to the
\* next chapter (NULL stands for a follow-up)
ListenerTurns == << "Introduction", NULL, "Foundations" >>

\* the turns the user takes: freely up to MaxTurns, the turns of a listener,
\* or a chapter start of the Introduction and a follow-up in alternation up
\* to MaxRepeatTurns
userMay(eraToSet, isNewEra) ==
    IF user = "free" THEN run.turns < MaxTurns
    ELSE IF user = "listener"
    THEN run.turns < Len(ListenerTurns) /\ eraToSet = ListenerTurns[run.turns + 1]
    ELSE /\ run.turns < MaxRepeatTurns
         /\ IF run.turns % 2 = 0 THEN isNewEra /\ eraToSet = "Introduction"
            ELSE ~isNewEra

aborted == turn.signal # abortController

\* the narration refs and state as one value
player ==
    [speechSessionId |-> speechSessionId, activeSources |-> activeSources,
     isAudioPlaying |-> isAudioPlaying, isSpeechLoading |-> isSpeechLoading,
     currentlySpeakingId |-> currentlySpeakingId]

becomes(a) ==
    /\ speechSessionId' = a.speechSessionId
    /\ activeSources' = a.activeSources
    /\ isAudioPlaying' = a.isAudioPlaying
    /\ isSpeechLoading' = a.isSpeechLoading
    /\ currentlySpeakingId' = a.currentlySpeakingId

\* a stop that leaves the playing flag alone
stopAudio_KeepPlaying(a) ==
    [a EXCEPT !.speechSessionId = @ + 1, !.activeSources = <<>>,
              !.isSpeechLoading = FALSE, !.currentlySpeakingId = {}]

\* a stop that forgets no source
stopAudio_KeepSources(a) ==
    [a EXCEPT !.speechSessionId = @ + 1, !.isAudioPlaying = FALSE,
              !.isSpeechLoading = FALSE, !.currentlySpeakingId = {}]

\* a stop that keeps the session number
stopAudio_SameSession(a) ==
    [a EXCEPT !.activeSources = <<>>, !.isAudioPlaying = FALSE,
              !.isSpeechLoading = FALSE, !.currentlySpeakingId = {}]

\* stopAudio: a new session number, every source stopped and forgotten
stopAudio(a) ==
    [a EXCEPT !.speechSessionId = @ + 1, !.activeSources = <<>>,
              !.isAudioPlaying = FALSE, !.isSpeechLoading = FALSE,
              !.currentlySpeakingId = {}]

\* The call up to its first await: the loading guard, a new abort controller,
\* the reset or the user message, the parallel image call and the text call.
handleAction(promptText, eraToSet, isNewEra) ==
    /\ ~(isLoading \/ isImageLoading)
    /\ userMay(eraToSet, isNewEra)
    /\ abortController' = abortController + 1
    /\ isLoading' = TRUE
    /\ messages' = IF isNewEra THEN <<>>
                   ELSE Append(messages, [role |-> "user", text |-> promptText])
    /\ lastImage' = IF isNewEra THEN NoImage ELSE lastImage
    /\ LET history == IF isNewEra THEN <<>> ELSE historyOf(messages)
           match == eraMatch(eraToSet)
       IN  /\ isImageLoading' = IF match.found THEN TRUE ELSE isImageLoading
           /\ imageTask' = IF match.found THEN startImage(match.group, eraToSet)
                           ELSE imageTask
           /\ textTask' = startText(promptText, history,
                                    IF isNewEra THEN eraToSet ELSE NULL)
           /\ turn' = [pc |-> "awaitText", signal |-> abortController + 1,
                       prompt |-> promptText, era |-> eraToSet, isNewEra |-> isNewEra,
                       parallel |-> match.found]
    /\ obs' = [NoObs EXCEPT
                 !.emptyAtStart = (DOMAIN store = {}),
                 !.known = run.live,
                 !.prev = [era |-> turn.era, isNewEra |-> turn.isNewEra,
                           text |-> obs.text, image |-> lastImage,
                           messages |-> messages, currentEra |-> currentEra]]
    /\ run' = [run EXCEPT !.turns = @ + 1]
    /\ becomes(stopAudio(player))
    /\ UNCHANGED << currentEra, performanceLogs, dbInstance, store, objectUrls, env, user,
                    probe, audioContext, narrations, heard >>

\* "Enter Laboratory": setHasStarted(true); startEra(Era.Introduction)
EnterLaboratory ==
    /\ ~hasStarted
    /\ hasStarted' = TRUE
    /\ handleAction(CHAPTERS[chapterOf("Introduction")].prompt, "Introduction", TRUE)

\* startEra: the chapter menu and "Next Era"
startEra ==
    /\ hasStarted
    /\ \E i \in 1..Len(CHAPTERS) : handleAction(CHAPTERS[i].prompt, CHAPTERS[i].id, TRUE)
    /\ UNCHANGED hasStarted

\* what the user may type or pick as a follow-up; one of them is the text of
\* a chapter prompt
UserPrompts == {"WhyZero", "FoundPrompt"}

\* a follow-up: the form, "Deeper Math" and the archive questions
FollowUp ==
    /\ hasStarted
    /\ \E q \in UserPrompts : handleAction(q, NULL, FALSE)
    /\ UNCHANGED hasStarted

\* responseText || "Ach, ze universe remains a mystery."
safeResponseOf(responseText) ==
    IF responseText = NULL \/ responseText = "" THEN "Placeholder" ELSE responseText

\* a turn that ignores the directive of the text
descriptionOf_Fallback(safeResponse, promptText) ==
    FALLBACK_SKETCH \o substring0(Chars(promptText), 60)

\* the description of a follow-up's image
descriptionOf(safeResponse, promptText) ==
    LET imgMatch == directiveOf[safeResponse]
    IN  IF imgMatch.found THEN imgMatch.group
        ELSE FALLBACK_SKETCH \o substring0(Chars(promptText), 60)

\* the continuation after `await textPromise`
HandleText ==
    /\ turn.pc = "awaitText"
    /\ textTask.pc \in {"resolved", "rejected"}
    /\ textTask' = [textTask EXCEPT !.pc = "idle"]
    /\ IF textTask.pc = "rejected"
       THEN \* catch (err), then finally
            /\ isLoading' = IF aborted THEN isLoading ELSE FALSE
            /\ turn' = [turn EXCEPT !.pc = "idle"]
            /\ UNCHANGED << messages, currentEra, isImageLoading, imageTask, obs >>
       ELSE IF aborted
       THEN /\ turn' = [turn EXCEPT !.pc = "idle"]
            /\ UNCHANGED << messages, currentEra, isLoading, isImageLoading, imageTask, obs >>
       ELSE LET safeResponse == safeResponseOf(textTask.value)
            IN  /\ messages' = Append(messages, [role |-> "einstein", text |-> safeResponse])
                /\ currentEra' = IF turn.era # NULL THEN turn.era ELSE currentEra
                /\ obs' = [obs EXCEPT !.text = safeResponse]
                /\ turn' = [turn EXCEPT !.pc = "awaitImage"]
                /\ IF turn.parallel
                   THEN UNCHANGED << isImageLoading, imageTask >>
                   ELSE /\ isImageLoading' = TRUE
                        /\ imageTask' = startImage(descriptionOf(safeResponse, turn.prompt), NULL)
                /\ UNCHANGED isLoading
    /\ UNCHANGED << lastImage, hasStarted, abortController, performanceLogs, dbInstance,
                    store, objectUrls, env, run, user, probe, audioVars >>

\* a turn that shows whatever the image call returned, absent included
shownImage_Always(current, imageUrl, isAborted) == imageUrl

\* if (!signal.aborted && imageUrl) setLastImage(imageUrl)
shownImage(current, imageUrl, isAborted) ==
    IF ~isAborted /\ imageUrl # NoImage THEN imageUrl ELSE current

\* the continuation after the image call settled, and the finally clauses
HandleImage ==
    /\ turn.pc = "awaitImage"
    /\ imageTask.pc = "resolved"
    /\ lastImage' = shownImage(lastImage, imageTask.value, aborted)
    /\ isImageLoading' = IF turn.parallel \/ ~aborted THEN FALSE ELSE isImageLoading
    /\ isLoading' = IF aborted THEN isLoading ELSE FALSE
    /\ turn' = [turn EXCEPT !.pc = "idle"]
    /\ imageTask' = [imageTask EXCEPT !.pc = "idle"]
    /\ UNCHANGED << messages, currentEra, hasStarted, abortController, performanceLogs,
                    dbInstance, store, objectUrls, env, textTask, obs, run, user, probe, audioVars >>

\* ------------------------------------------------------- narration
\* text.replace(/\[IMAGE:.*?\]/g, ''): every "[IMAGE:" up to the first "]"
\* that follows it on the same line is removed, from left to right
IMAGE_OPEN ==
    <<"[", "I", "M", "A", "G", "E", ":">>

RECURSIVE stripDirectives(_)
stripDirectives(s) ==
    LET closes(i) == {j \in (i + Len(IMAGE_OPEN))..Len(s) :
                        /\ s[j] = "]"
                        /\ \A k \in (i + Len(IMAGE_OPEN))..(j - 1) : s[k] # "\n"}
        opens == {i \in 1..Len(s) :
                    /\ i + Len(IMAGE_OPEN) - 1 <= Len(s)
                    /\ SubSeq(s, i, i + Len(IMAGE_OPEN) - 1) = IMAGE_OPEN
                    /\ closes(i) # {}}
    IN  IF opens = {} THEN s
        ELSE LET i == MinOf(opens)
                 j == MinOf(closes(i))
             IN  SubSeq(s, 1, i - 1) \o stripDirectives(SubSeq(s, j + 1, Len(s)))

\* s.split(/\n\n+/): the pieces between the runs of two or more line feeds
RECURSIVE splitParagraphs(_)
splitParagraphs(s) ==
    LET breaks == {i \in 1..(Len(s) - 1) : s[i] = "\n" /\ s[i + 1] = "\n"}
    IN  IF breaks = {} THEN << s >>
        ELSE LET i == MinOf(breaks)
                 k == MaxOf({j \in (i + 1)..Len(s) : \A m \in i..j : s[m] = "\n"})
             IN  << SubSeq(s, 1, i - 1) >> \o splitParagraphs(SubSeq(s, k + 1, Len(s)))

\* the paragraphs playSpeech narrates, for every text a message can hold
paragraphsOf ==
    [t \in Texts |->
        SelectSeq(splitParagraphs(stripDirectives(Chars(t))),
                  LAMBDA para : Len(trim(para)) > 0)] @@ <<>>

\* what the speech backend may answer: audio, audio of an odd number of
\* bytes, an answer without audio data, or "throw" (the call rejects)
SpeechAnswers(faulty) == IF faulty THEN {"malformed", "nodata", "throw"} ELSE {"audio"}

\* generateEinsteinSpeech: one request that carries the text as it is; requests
\* lists the instruction of every request made, waits the delays (in ms) the
\* call slept through
generateEinsteinSpeech(logs, answer) ==
    [requests |-> << "none" >>,
     waits |-> <<>>,
     base64 |-> IF answer \in {"audio", "malformed"} THEN answer ELSE NULL,
     logs |-> IF answer \in {"audio", "malformed"}
              THEN addLog(logs, LogEntry("AI_AUDIO", "GEMINI AUDIO", "SUCCESS"))
              ELSE IF answer = "throw"
              THEN addLog(logs, LogEntry("ERROR", "AUDIO ERROR", "ERROR"))
              ELSE logs]

\* decodeAudioData(decode(base64), ...): new Int16Array(data.buffer) throws on
\* an odd number of bytes
decodeAudioData(base64) == IF base64 = "malformed" THEN "throw" ELSE "buffer"

NoCall == [requests |-> <<>>, waits |-> <<>>, base64 |-> NULL, failed |-> FALSE,
           threw |-> FALSE, session |-> 0]

\* the buffer source of a paragraph of a session
sourceOf(n) == [session |-> n.session, i |-> n.i]

\* a loop that goes to the last paragraph at once
loopFrom_LastOnly(a, n, i) ==
    IF i > Len(paragraphsOf[n.text])
    THEN [player |-> IF n.session = a.speechSessionId THEN stopAudio(a) ELSE a,
          next |-> {}, call |-> 0]
    ELSE IF n.session # a.speechSessionId
    THEN [player |-> a, next |-> {}, call |-> 0]
    ELSE [player |-> [a EXCEPT !.isSpeechLoading = TRUE],
          next |-> {[n EXCEPT !.pc = "speech", !.i = Len(paragraphsOf[n.text])]},
          call |-> 1]

\* The for loop of playSpeech from paragraph i on, up to its next await: the
\* session check, then the speech request; after the last paragraph the
\* session that is still current stops the audio.
loopFrom(a, n, i) ==
    IF i > Len(paragraphsOf[n.text])
    THEN [player |-> IF n.session = a.speechSessionId THEN stopAudio(a) ELSE a,
          next |-> {}, call |-> 0]
    ELSE IF n.session # a.speechSessionId
    THEN [player |-> a, next |-> {}, call |-> 0]
    ELSE [player |-> [a EXCEPT !.isSpeechLoading = TRUE],
          next |-> {[n EXCEPT !.pc = "speech", !.i = i]}, call |-> 1]

\* an end that stops the audio whatever the session
finish_Always(a, n) == stopAudio(a)

\* the end of a playSpeech call after a break or in the catch clause
finish(a, n) == IF n.session = a.speechSessionId THEN stopAudio(a) ELSE a

\* a button that never stops
speaking_Never(a, msgId) == FALSE

\* currentlySpeakingId === msgId && (isAudioPlaying || isSpeechLoading)
speaking(a, msgId) ==
    a.currentlySpeakingId = {msgId} /\ (a.isAudioPlaying \/ a.isSpeechLoading)

\* playSpeech(msg.text, idx) up to its first await: "Read Thoughts" under a
\* message of the persona, and the Listen button for the last one
playSpeech ==
    /\ ~(isLoading \/ isImageLoading)
    /\ heard.plays < MaxPlays
    /\ \E idx \in 1..Len(messages) :
        /\ messages[idx].role = "einstein"
        /\ LET msgId == idx - 1
           IN  IF speaking(player, msgId)
               THEN /\ becomes(stopAudio(player))
                    /\ heard' = [heard EXCEPT !.plays = @ + 1]
                    /\ UNCHANGED << audioContext, narrations >>
               ELSE LET a == [stopAudio(player) EXCEPT !.currentlySpeakingId = {msgId}]
                        n == [session |-> a.speechSessionId, msgId |-> msgId,
                              text |-> messages[idx].text, i |-> 1, pc |-> "resume"]
                    IN  \E state \in IF audioContext = "none"
                                     THEN {"running", "suspended"} ELSE {audioContext} :
                            /\ audioContext' = state
                            /\ IF state = "suspended"
                               THEN /\ becomes(a)
                                    /\ narrations' = narrations \cup {n}
                                    /\ heard' = [heard EXCEPT !.plays = @ + 1]
                               ELSE LET r == loopFrom(a, n, 1)
                                    IN  /\ becomes(r.player)
                                        /\ narrations' = narrations \cup r.next
                                        /\ heard' = [heard EXCEPT !.plays = @ + 1,
                                                                   !.calls = @ + r.call]
    /\ UNCHANGED << messages, currentEra, isLoading, isImageLoading, lastImage,
                    hasStarted, abortController, performanceLogs, dbInstance, store,
                    objectUrls, env, turn, textTask, imageTask, obs, run, user, probe >>

\* the continuation after `await audioContextRef.current.resume()`
ResumeContext ==
    /\ \E n \in narrations :
        /\ n.pc = "resume"
        /\ audioContext' = "running"
        /\ LET r == loopFrom(player, n, 1)
           IN  /\ becomes(r.player)
               /\ narrations' = (narrations \ {n}) \cup r.next
               /\ heard' = [heard EXCEPT !.calls = @ + r.call]
    /\ UNCHANGED << messages, currentEra, isLoading, isImageLoading, lastImage,
                    hasStarted, abortController, performanceLogs, dbInstance, store,
                    objectUrls, env, turn, textTask, imageTask, obs, run, user, probe >>

\* The speech request of a session settles: generateEinsteinSpeech logs and
\* returns, playSpeech resumes, decodes, and starts the source of the paragraph
\* (the awaits in between resume in the same turn of the event loop).
SpeechReturn ==
    /\ \E n \in narrations : \E faulty \in BOOLEAN : \E answer \in SpeechAnswers(faulty) :
        /\ n.pc = "speech"
        /\ heard.faults + Cost(faulty) <= MaxSpeechFaults
        /\ LET g == generateEinsteinSpeech(performanceLogs, answer)
           IN  /\ performanceLogs' = g.logs
               /\ heard' = [heard EXCEPT !.faults = @ + Cost(faulty), !.last =
                              [requests |-> g.requests, waits |-> g.waits,
                               base64 |-> g.base64,
                               failed |-> answer \in {"nodata", "throw"},
                               threw |-> answer = "throw",
                               session |-> n.session]]
               /\ IF n.session # speechSessionId \/ g.base64 = NULL
                     \/ decodeAudioData(g.base64) = "throw"
                  THEN /\ becomes(finish(player, n))
                       /\ narrations' = narrations \ {n}
                  ELSE /\ becomes([player EXCEPT
                                     !.isSpeechLoading = FALSE, !.isAudioPlaying = TRUE,
                                     !.activeSources = Append(@, sourceOf(n))])
                       /\ narrations' = (narrations \ {n}) \cup {[n EXCEPT !.pc = "playing"]}
    /\ UNCHANGED << messages, currentEra, isLoading, isImageLoading, lastImage,
                    hasStarted, abortController, dbInstance, store, objectUrls, env,
                    turn, textTask, imageTask, obs, run, user, probe, audioContext >>

\* The playback wait of a paragraph ends: source.onended after the buffer
\* played or after a stop, or the 50 ms checker of a session that is no
\* longer current; the loop goes on to the next paragraph.
SourceEnded ==
    /\ \E n \in narrations :
        /\ n.pc = "playing"
        /\ LET a == [player EXCEPT
                       !.activeSources = SelectSeq(@, LAMBDA src : src # sourceOf(n))]
               r == loopFrom(a, n, n.i + 1)
           IN  /\ becomes(r.player)
               /\ narrations' = (narrations \ {n}) \cup r.next
               /\ heard' = [heard EXCEPT !.calls = @ + r.call]
    /\ UNCHANGED << messages, currentEra, isLoading, isImageLoading, lastImage,
                    hasStarted, abortController, performanceLogs, dbInstance, store,
                    objectUrls, env, turn, textTask, imageTask, obs, run, user, probe,
                    audioContext >>

\* ------------------------------------------------------ specification
\* the page after load, before "Enter Laboratory"
\* a run before its first turn, with the whole allowance of failures
\* opens counts the indexedDB.open requests issued
NoRun == [turns |-> 0, faults |-> 0, storeFailed |-> FALSE, live |-> {}, opens |-> 0]

Loaded ==
    /\ messages = <<>>
    /\ currentEra = "Introduction"
    /\ isLoading = FALSE
    /\ isImageLoading = FALSE
    /\ lastImage = NoImage
    /\ hasStarted = FALSE
    /\ abortController = 0
    /\ performanceLogs = <<>>
    /\ dbInstance = FALSE
    /\ objectUrls = 0
    /\ turn = IdleTurn
    /\ textTask = IdleText
    /\ imageTask = IdleImage
    /\ obs = NoObs
    /\ speechSessionId = 0
    /\ activeSources = <<>>
    /\ isAudioPlaying = FALSE
    /\ isSpeechLoading = FALSE
    /\ currentlySpeakingId = {}
    /\ audioContext = "none"
    /\ narrations = {}
    /\ heard = [plays |-> 0, calls |-> 0, faults |-> 0, last |-> NoCall]

Init ==
    Loaded /\ env \in Deployments /\ store = <<>> /\ user = "free" /\ probe = NoProbe
           /\ run = NoRun

InitRepeat ==
    Loaded /\ env \in Deployments /\ store = <<>> /\ user = "repeat" /\ probe = NoProbe
           /\ run = NoRun

Next ==
    \/ EnterLaboratory
    \/ startEra
    \/ FollowUp
    \/ TextStaticLookup
    \/ TextCacheLookup
    \/ TextGenerate
    \/ HandleText
    \/ ImageStaticLookup
    \/ ImageGenerate
    \/ HandleImage

Spec == Init /\ [][Next]_vars

\* A listener: turns on a complete archive that meet no failure (the
\* allowance of the run is spent from the start), and narration of the
\* messages between and during them; the speech backend has its own allowance.
InitNarration ==
    Loaded /\ env \in ListenerDeployments /\ store = <<>> /\ user = "listener"
           /\ probe = NoProbe /\ run = [NoRun EXCEPT !.faults = MaxFaults]

NextNarration ==
    \/ Next
    \/ playSpeech
    \/ ResumeContext
    \/ SpeechReturn
    \/ SourceEnded

SpecNarration == InitNarration /\ [][NextNarration]_vars

\* The awaits of playSpeech settle: resume() resolves, the speech request
\* returns or rejects, and a source that was started or stopped ends.
SpecNarrationFair ==
    /\ SpecNarration
    /\ WF_vars(ResumeContext) /\ WF_vars(SpeechReturn) /\ WF_vars(SourceEnded)

SpecRepeat == InitRepeat /\ [][Next]_vars

\* ------------------------------------------ single operations, applied once
\* Each of the specifications below applies one operation of geminiService.ts
\* to an input drawn at the start; probe holds the input and then the result.
idle == << messages, currentEra, isLoading, isImageLoading, lastImage, hasStarted,
           abortController, env, turn, textTask, imageTask, obs, user, audioVars >>

\* the deployment plays no part in them
NoArchive == [pathname |-> AppPathname, text |-> "missing", images |-> "missing"]

\* ---- isValidImage
Bytes == {0, 71, 78, 80, 137, 216, 224, 255}

\* a blob is its size and its first four bytes (fewer when it is shorter)
Blobs ==
    UNION {[size : {n}, head : [1..MinOf({n, 4}) -> Bytes]] : n \in 0..MaxBlobSize}

InitImage ==
    /\ Loaded /\ env = NoArchive /\ store = <<>> /\ user = "none" /\ run = NoRun
    /\ probe \in [op : {"isValidImage"}, blob : Blobs, done : {FALSE}, result : {FALSE}]

CallIsValidImage ==
    /\ probe.op = "isValidImage" /\ ~probe.done
    /\ probe' = [probe EXCEPT !.done = TRUE, !.result = isValidImage(probe.blob)]
    /\ UNCHANGED << idle, performanceLogs, dbInstance, store, objectUrls, run >>

SpecImage == InitImage /\ [][CallIsValidImage]_vars

\* ---- getFromStaticServer
RootPathname == [dirs |-> <<>>, file |-> ""]

NetworkError == [err |-> TRUE, ok |-> FALSE, ctype |-> "", text |-> "", blob |-> NoBlob]

\* a JPEG header on a payload of fewer than ten bytes
ShortJpegBlob == [size |-> 8, head |-> << 255, 216, 255, 224 >>]

\* the content-type headers: an HTML one and the one of the file asked for
ContentTypes(type) ==
    {"Text/HTML; charset=UTF-8", IF type = "text" THEN "text/plain" ELSE "image/jpeg"}

\* What the origin may answer to one candidate URL. A text answer declared as
\* plain text has any of six bodies (the empty one among them), one declared
\* as HTML has one of two.
Responses(type) ==
    {NetworkError, Http404} \cup
    IF type = "text"
    THEN {r \in [err : {FALSE}, ok : {TRUE}, ctype : ContentTypes(type),
                 text : {"ArchiveText", "HtmlHead", "HtmlDoc", "HtmlTag", "Tiny", ""},
                 blob : {NoBlob}] :
            r.ctype = "text/plain" \/ r.text \in {"ArchiveText", "HtmlHead"}}
    ELSE [err : {FALSE}, ok : {TRUE}, ctype : ContentTypes(type), text : {""},
          blob : {JpegBlob, ShortJpegBlob, HtmlBlob}]

StaticCalls ==
    UNION {[op : {"getFromStaticServer"}, type : {type}, eraKey : {"The Origins of Zero"},
            pathname : {pathname},
            fetch : [Range(trialUrls(type, "The Origins of Zero", pathname)) -> Responses(type)],
            done : {FALSE}, result : {NULL}] :
           type \in {"text", "images"}, pathname \in {AppPathname, RootPathname}}

InitStatic ==
    /\ Loaded /\ env = NoArchive /\ store = <<>> /\ user = "none" /\ run = NoRun
    /\ probe \in StaticCalls

CallGetFromStaticServer ==
    /\ probe.op = "getFromStaticServer" /\ ~probe.done
    /\ LET r == getFromStaticServer(probe.type, probe.eraKey, probe.pathname, probe.fetch)
       IN  /\ performanceLogs' = addLog(performanceLogs, r.log)
           /\ objectUrls' = IF r.hit /\ probe.type = "images" THEN objectUrls + 1
                            ELSE objectUrls
           /\ probe' = [probe EXCEPT !.done = TRUE, !.result = r]
    /\ UNCHANGED << idle, dbInstance, store, run >>

SpecStatic == InitStatic /\ [][CallGetFromStaticServer]_vars

\* ---- saveToCache, then getFromCache
Categories == {TEXT, << "t", "e", "x", "t", "_", "a" >>}

Keys == {<< "k" >>, << "a", "_", "k" >>}

Payloads == {"", "GenShort", "Hallo", "GenTagged"}

\* what the store may hold before the calls
PriorStores ==
    UNION {[D -> {"ArchiveText", "GenTagged"}] :
           D \in SUBSET {storageKey(c, k) : c \in Categories, k \in Keys}}

InitCache ==
    /\ Loaded /\ env = NoArchive /\ user = "none" /\ run = NoRun
    /\ store \in PriorStores
    /\ probe \in [op : {"cache"}, category : Categories, key : Keys, data : Payloads,
                   pc : {"put"}, prior : {store}, put : {"none"}, get : {"none"},
                   got : {NULL}]

CallSaveToCache ==
    /\ probe.op = "cache" /\ probe.pc = "put"
    /\ \E idb \in StoreOutcomes :
          /\ idb = "fail" => saveOpens(probe.data)
          /\ store' = saveToCache(store, probe.category, probe.key, probe.data, idb)
          /\ dbInstance' = IF saveOpens(probe.data) THEN openDB(dbInstance, idb)
                           ELSE dbInstance
          /\ run' = [run EXCEPT !.faults = @ + Cost(idb = "fail"),
                                !.storeFailed = @ \/ idb = "fail",
                                !.opens = @ + Cost(saveOpens(probe.data) /\ ~dbInstance)]
          /\ probe' = [probe EXCEPT !.pc = "get",
                                    !.put = IF saveOpens(probe.data) THEN idb ELSE "none"]
    /\ UNCHANGED << idle, performanceLogs, objectUrls >>

CallGetFromCache ==
    /\ probe.op = "cache" /\ probe.pc = "get"
    /\ \E idb \in StoreOutcomes :
          /\ dbInstance' = openDB(dbInstance, idb)
          /\ run' = [run EXCEPT !.faults = @ + Cost(idb = "fail"),
                                !.storeFailed = @ \/ idb = "fail",
                                !.opens = @ + Cost(~dbInstance)]
          /\ probe' = [probe EXCEPT
                         !.pc = "done", !.get = idb,
                         !.got = getFromCache(store, probe.category, probe.key, idb)]
    /\ UNCHANGED << idle, performanceLogs, store, objectUrls >>

NextCache == CallSaveToCache \/ CallGetFromCache

SpecCache == InitCache /\ [][NextCache]_vars

\* ---- generateCacheKey: the digest as hexadecimal text
\* b.toString(16)
toString16(b) ==
    LET hex == << "0", "1", "2", "3", "4", "5", "6", "7", "8", "9",
                  "a", "b", "c", "d", "e", "f" >>
    IN  IF b < 16 THEN << hex[b + 1] >>
        ELSE << hex[(b \div 16) + 1], hex[(b % 16) + 1] >>

\* s.padStart(2, '0')
padStart2(s) == IF Len(s) < 2 THEN << "0" >> \o s ELSE s

\* Array.from(new Uint8Array(hashBuffer)).map(...).join('').substring(0, 32)
RECURSIVE joinHex(_, _)
joinHex(hashBuffer, i) ==
    IF i > Len(hashBuffer) THEN <<>>
    ELSE padStart2(toString16(hashBuffer[i])) \o joinHex(hashBuffer, i + 1)

\* the whole digest as text
hexKey_Whole(hashBuffer) == joinHex(hashBuffer, 1)

hexKey(hashBuffer) == substring0(joinHex(hashBuffer, 1), 32)

\* crypto.subtle.digest is a function of its input that the model does not
\* compute: each run fixes the 32 bytes it yields for each of two inputs, drawn
\* from digests with bytes below and above 16. Two calls are made.
InitKey ==
    /\ Loaded /\ env = NoArchive /\ store = <<>> /\ user = "none" /\ run = NoRun
    /\ probe \in [op : {"key"},
                  digest : [{"IntroPrompt", "WhyZero"} ->
                              {[i \in 1..32 |-> (a * i + b) % 256] :
                                 a \in {0, 1, 7, 16}, b \in {0, 9, 15, 200}}],
                  calls : {<<>>}]

CallGenerateCacheKey ==
    /\ probe.op = "key" /\ Len(probe.calls) < 2
    /\ \E input \in DOMAIN probe.digest :
          probe' = [probe EXCEPT !.calls =
                      Append(@, [input |-> input, key |-> hexKey(probe.digest[input])])]
    /\ UNCHANGED << idle, performanceLogs, dbInstance, store, objectUrls, run >>

SpecKey == InitKey /\ [][CallGenerateCacheKey]_vars

\* ---- addLog and clearPerformanceLogs, in any order
\* an addLog that tells no observer
dispatchEvent_Silent(events, newLog) == events

\* window.dispatchEvent(new CustomEvent('performance_log_updated', { detail: newLog }))
dispatchEvent(events, newLog) ==
    Append(events, [type |-> "performance_log_updated", detail |-> newLog])

\* probe.appended holds the entries appended since the last clear, oldest
\* first; the label of an entry is the number of the append (its unique id);
\* probe.events holds the events dispatched to the window
InitLog ==
    /\ Loaded /\ env = NoArchive /\ store = <<>> /\ user = "none" /\ run = NoRun
    /\ probe = [op |-> "log", appended |-> <<>>, total |-> 0, events |-> <<>>]

CallAddLog ==
    /\ probe.op = "log" /\ probe.total < MaxAppends
    /\ LET entry == LogEntry("SYSTEM", probe.total + 1, "SUCCESS")
       IN  /\ performanceLogs' = addLog(performanceLogs, entry)
           /\ probe' = [probe EXCEPT !.appended = Append(@, entry), !.total = @ + 1,
                                     !.events = dispatchEvent(@, entry)]
    /\ UNCHANGED << idle, dbInstance, store, objectUrls, run >>

\* clearPerformanceLogs: performanceLogs = []  ("Flush" in the log viewer)
CallClearPerformanceLogs ==
    /\ probe.op = "log"
    /\ performanceLogs' = <<>>
    /\ probe' = [probe EXCEPT !.appended = <<>>]
    /\ UNCHANGED << idle, dbInstance, store, objectUrls, run >>

NextLog == CallAddLog \/ CallClearPerformanceLogs

SpecLog == InitLog /\ [][NextLog]_vars

\* ================================================================ properties
\* the stage names of the request in flight, in the order they were consulted
stageNames == [i \in 1..Len(obs.stages) |-> obs.stages[i].stage]

\* a turn has been taken and has run to its end
turnEnded == run.turns > 0 /\ turn.pc = "idle"

\* C1: for every text request the stages are consulted in the order static
\* archive, persistent cache, live generation, and no stage is consulted after
\* one that succeeded: the cache is read only when the static lookup was skipped
\* (no chapter key) or missed, the backend is called only after a cache miss.
C1_StrictStageOrder ==
    /\ stageNames \in {<<>>, << "STATIC" >>, << "STATIC", "CACHE" >>,
                       << "STATIC", "CACHE", "LIVE" >>, << "CACHE" >>, << "CACHE", "LIVE" >>}
    /\ \A i \in 1..Len(obs.stages) : i < Len(obs.stages) => ~obs.stages[i].hit
    /\ Len(obs.stages) > 0 /\ stageNames[1] = "CACHE" => textTask.eraKey = NULL
    /\ Len(obs.stages) > 0 /\ obs.stages[Len(obs.stages)].hit =>
           textTask.pc \in {"resolved", "idle"}

\* a request went through all three stages and the last one answered
C1_Witness ==
    /\ stageNames = << "STATIC", "CACHE", "LIVE" >>
    /\ obs.stages[3].hit
    /\ textTask.pc = "resolved"

\* C2: every entry of the persistent cache was written by a successful live
\* generation, and a request answered by the static archive or by the cache
\* performs no cache write.
C2_OnlyLiveResultsCached ==
    /\ \A k \in DOMAIN store : \E e \in run.live : e.key = k /\ e.text = store[k]
    /\ (\E i \in 1..Len(obs.stages) :
            obs.stages[i].stage \in {"STATIC", "CACHE"} /\ obs.stages[i].hit)
           => obs.cacheWrites = 0 /\ obs.textCalls = 0
                /\ \A e \in run.live : e \in obs.known

\* a turn answered from the cache, which holds what an earlier turn generated
C2_Witness ==
    /\ turnEnded
    /\ stageNames = << "STATIC", "CACHE" >> /\ obs.stages[2].hit
    /\ DOMAIN store # {}
    /\ obs.cacheWrites = 0

\* the declared content type of a response is an HTML one
declaredHtml(response) == response.ctype \in {"text/html", "Text/HTML; charset=UTF-8"}

\* C7: in a text lookup a candidate with HTTP success status and a declared
\* content type of text/html is never accepted; when every candidate is such a
\* response the resolver returns not-found and the request goes on to the cache
\* and then to live generation.
C7_Soft404NeverAccepted ==
    Len(obs.stages) > 0 /\ stageNames[1] = "STATIC" =>
        LET fetch == originFetch("text", textTask.eraKey, env)
            soft404(u) == fetch[u].ok /\ declaredHtml(fetch[u])
        IN  /\ obs.stages[1].hit => ~soft404(obs.matched)
            /\ (\A u \in DOMAIN fetch : soft404(u)) =>
                  /\ ~obs.stages[1].hit
                  /\ textTask.pc \in {"resolved", "rejected", "idle"} => Len(obs.stages) > 1
                  /\ Len(obs.stages) > 1 => stageNames[2] = "CACHE"
                  /\ Len(obs.stages) > 2 => ~obs.stages[2].hit /\ stageNames[3] = "LIVE"

\* every candidate was a soft 404 and the text came from live generation
C7_Witness ==
    /\ env.text = "soft404"
    /\ stageNames = << "STATIC", "CACHE", "LIVE" >>
    /\ \A u \in DOMAIN originFetch("text", textTask.eraKey, env) :
           originFetch("text", textTask.eraKey, env)[u] = Soft404
    /\ textTask.pc = "resolved"

\* the cache key of the text request of the current turn
currentKey == storageKey(TEXT, textCacheKey(textTask.prompt, textTask.history))

\* an earlier follow-up of the run generated a text for the same prompt and the
\* same serialized history
askedBefore == \E e \in obs.known : e.followUp /\ e.key = currentKey

\* the text that was generated then
earlierText == (CHOOSE e \in obs.known : e.followUp /\ e.key = currentKey).text

\* a follow-up turn has run to its end
followUpEnded == turnEnded /\ ~turn.isNewEra /\ turn.era = NULL

\* C3 (as stated): a follow-up whose prompt and serialized history are identical
\* to those of an earlier live-generated follow-up returns the cached text with
\* no text-backend call, and still makes one image-generation call in that turn.
C3_RepeatedFollowUpAsStated ==
    followUpEnded /\ askedBefore =>
        /\ obs.textCalls = 0
        /\ obs.text = earlierText
        /\ obs.imageCalls = 1

\* C3 (amended): the same, for an earlier text of at least five characters and
\* a store that has not failed since the page was loaded.
C3_RepeatedFollowUp ==
    followUpEnded /\ askedBefore /\ Len(Chars(earlierText)) >= 5 /\ ~run.storeFailed =>
        /\ obs.textCalls = 0
        /\ obs.stages # <<>> /\ obs.stages[Len(obs.stages)] = Stage("CACHE", TRUE, FALSE)
        /\ obs.text = earlierText
        /\ obs.imageCalls = 1

\* the fourth turn repeats the follow-up of the second and is served its text
C3_Witness ==
    /\ followUpEnded /\ askedBefore /\ ~run.storeFailed
    /\ run.turns = 4
    /\ obs.textCalls = 0
    /\ obs.text = "GenTagged"
    /\ obs.imageCalls = 1

\* a chapter start has run to its end on a deployment without the chapter's
\* text and with its image, the cache being empty when the turn began
chapterTextAbsent ==
    /\ turnEnded /\ turn.isNewEra
    /\ env.text # "present" /\ env.images = "present"
    /\ obs.emptyAtStart

\* what C4 states of such a turn
staticImageLiveText ==
    /\ stageNames = << "STATIC", "CACHE", "LIVE" >>
    /\ ~obs.stages[1].hit /\ ~obs.stages[2].hit /\ obs.stages[3].hit
    /\ LET k == storageKey(TEXT, textCacheKey(turn.prompt, <<>>))
       IN  k \in DOMAIN store /\ store[k] = obs.text /\ obs.text # NULL
    /\ lastImage.kind = "blob"
    /\ obs.textCalls = 1
    /\ obs.imageCalls = 0

\* C4 (as stated): a chapter start with static text absent, static image
\* present and an empty cache goes through static miss, cache miss and live
\* generation, writes the generated text to the cache under the key of the
\* chapter prompt with empty history, shows the static image, and makes exactly
\* one text-backend call and no image-backend call.
C4_ChapterStartAsStated == chapterTextAbsent => staticImageLiveText

\* C4 (amended): the same, when the backend answered with a text of at least
\* five characters and the store did not fail.
C4_ChapterStart ==
    chapterTextAbsent /\ obs.text # NULL /\ Len(Chars(obs.text)) >= 5 /\ ~run.storeFailed
        => staticImageLiveText

\* the first chapter start of a run, text generated and cached, image static
C4_Witness ==
    /\ chapterTextAbsent /\ ~run.storeFailed
    /\ obs.text = "GenTagged"
    /\ staticImageLiveText

\* C5: two chapter starts in a row with the same input, on a deployment whose
\* archive holds the text and the image, return the same text and the same
\* image reference, call no backend and write nothing to the cache.
C5_RepeatedChapterStart ==
    /\ turnEnded /\ turn.isNewEra
    /\ obs.prev.isNewEra /\ obs.prev.era = turn.era /\ obs.prev.text # NULL
    /\ env.text = "present" /\ env.images = "present"
    => /\ obs.text = obs.prev.text
       /\ lastImage = obs.prev.image
       /\ obs.textCalls = 0 /\ obs.imageCalls = 0 /\ obs.cacheWrites = 0
       /\ store = <<>> /\ objectUrls = 1

\* C10: a text-backend failure in a follow-up (no chapter key) does not make
\* generateEinsteinResponse throw, and the turn appends an Einstein message.
C10_FollowUpFallback ==
    run.turns > 0 /\ ~turn.isNewEra /\ turn.era = NULL =>
        /\ textTask.pc # "rejected"
        /\ turn.pc = "idle" =>
               Len(messages) > 0 /\ messages[Len(messages)].role = "einstein"

\* ------------------------------------------------ single operations
\* the four bytes FF D8 FF E0
JFIF == << 255, 216, 255, 224 >>

\* C8 (as stated): isValidImage rejects every blob of 3 bytes and every blob
\* whose first four bytes are 00 00 00 00, and accepts every blob that starts
\* with FF D8 FF E0.
C8_SignatureAsStated ==
    probe.op = "isValidImage" /\ probe.done =>
        /\ probe.blob.size = 3 => ~probe.result
        /\ probe.blob.head = << 0, 0, 0, 0 >> => ~probe.result
        /\ probe.blob.head = JFIF => probe.result

\* C8 (amended): it accepts every blob of at least 10 bytes that starts with
\* FF D8 FF E0, and rejects the shorter ones; the two rejections are as stated.
C8_Signature ==
    probe.op = "isValidImage" /\ probe.done =>
        /\ probe.blob.size = 3 => ~probe.result
        /\ probe.blob.head = << 0, 0, 0, 0 >> => ~probe.result
        /\ probe.blob.head = JFIF => (probe.result <=> probe.blob.size >= 10)

\* a blob of exactly 10 bytes with the JPEG header was accepted
C8_Witness ==
    /\ probe.op = "isValidImage" /\ probe.done
    /\ probe.blob.head = JFIF /\ probe.blob.size = 10
    /\ probe.result

\* C9: in the static resolver, for text and for image lookups, a candidate whose
\* declared content type contains the HTML marker is rejected whatever its body.
C9_HtmlTypeRejected ==
    probe.op = "getFromStaticServer" /\ probe.done /\ probe.result.hit =>
        ~declaredHtml(probe.fetch[probe.result.url])

\* C6 (as stated): put(c, k, v) with v of at least 5 characters followed by
\* get(c, k) returns v, and put(c, k, "") followed by get(c, k) returns absent.
C6_RoundTripAsStated ==
    probe.op = "cache" /\ probe.pc = "done" =>
        /\ Len(Chars(probe.data)) >= 5 => probe.got = probe.data
        /\ probe.data = "" => probe.got = NULL

\* what was stored under (c, k) before the two calls, absent when nothing was
priorEntry ==
    LET k == storageKey(probe.category, probe.key)
    IN  IF k \in DOMAIN probe.prior THEN probe.prior[k] ELSE NULL

\* C6 (amended): when the store works for both calls, put(c, k, v) with v of at
\* least 5 characters followed by get(c, k) returns v, and put(c, k, "") writes
\* nothing, so that get(c, k) returns what was stored under (c, k) before.
C6_RoundTrip ==
    probe.op = "cache" /\ probe.pc = "done" /\ probe.put # "fail" /\ probe.get # "fail" =>
        /\ Len(Chars(probe.data)) >= 5 => probe.got = probe.data
        /\ probe.data = "" => probe.got = priorEntry /\ store = probe.prior

\* a payload of exactly five characters replaced an older entry and was read
C6_Witness ==
    /\ probe.op = "cache" /\ probe.pc = "done"
    /\ probe.put = "ok" /\ probe.get = "ok"
    /\ probe.data = "Hallo" /\ priorEntry = "ArchiveText"
    /\ probe.got = "Hallo"

\* C11: after any turn has ended, whatever became of its text and its image,
\* isLoading and isImageLoading are false, so that the next handleAction or
\* playSpeech call passes its loading guard.
C11_TurnNeverBlocks == turnEnded => ~isLoading /\ ~isImageLoading

\* C12: generateChalkboardImage settles without throwing, with an image or with
\* absent; a turn whose image is absent has appended its text message, leaves
\* lastImage as it was and clears both loading flags.
C12_AbsentImage ==
    [][/\ imageTask.pc \in {"idle", "static", "generate", "resolved"}
       /\ (turn.pc = "awaitImage" /\ turn'.pc = "idle" /\ imageTask.value = NoImage) =>
              /\ lastImage' = lastImage
              /\ messages' = messages
              /\ messages # <<>> /\ messages[Len(messages)].role = "einstein"
              /\ ~isLoading' /\ ~isImageLoading']_vars

\* a follow-up whose image call failed: the text is there, the image of the
\* turn before is still shown
C12_Witness ==
    /\ followUpEnded
    /\ obs.imageCalls = 1 /\ imageTask.value = NoImage
    /\ messages[Len(messages)] = [role |-> "einstein", text |-> obs.text]
    /\ lastImage # NoImage

\* C14: every call of the text or image dispatcher that reaches the backend
\* appends exactly one diagnostic log entry, whatever the backend answers.
C14_OneLogPerBackendCall ==
    [][(obs'.textCalls = obs.textCalls + 1 \/ obs'.imageCalls = obs.imageCalls + 1) =>
           /\ Len(performanceLogs') = Len(performanceLogs) + 1
           /\ SubSeq(performanceLogs', 2, Len(performanceLogs')) = performanceLogs]_vars

\* a follow-up turn is in flight or has ended
inFollowUp == run.turns > 0 /\ ~turn.isNewEra /\ turn.era = NULL

\* the prompt is, character for character, the prompt of a chapter
isChapterPrompt(prompt) == \E i \in 1..Len(CHAPTERS) : CHAPTERS[i].prompt = prompt

expectedDescription(text, promptText) ==
    IF imageMatch(Chars(text)).found THEN imageMatch(Chars(text)).group
    ELSE FALLBACK_SKETCH \o SubSeq(Chars(promptText), 1, MinOf({60, Len(Chars(promptText))}))

\* C18: a follow-up turn whose text was resolved makes exactly one image
\* generation call, described by the [IMAGE: ...] directive of the text when
\* there is one and by the fallback sentence on the request text otherwise.
C18_OneImagePerFollowUp ==
    /\ followUpEnded /\ obs.text # NULL =>
           /\ obs.imageCalls = 1
           /\ imageTask.description = expectedDescription(obs.text, turn.prompt)
    /\ inFollowUp => obs.imageCalls <= 1
    /\ inFollowUp /\ obs.text = NULL => obs.imageCalls = 0

\* a follow-up whose text has no directive: the image was asked for with the
\* fallback description
C18_Witness ==
    /\ followUpEnded /\ obs.text = "GenShort" /\ turn.prompt = "WhyZero"
    /\ obs.imageCalls = 1
    /\ imageTask.description = FALLBACK_SKETCH \o WhyZeroChars

\* C19: in a follow-up the image request is issued only after the text of the
\* turn was resolved; in a chapter start it is issued before the text is
\* resolved, and joined after it.
C19_ImageOrder ==
    /\ inFollowUp /\ turn.pc = "awaitText" => imageTask.pc = "idle" /\ obs.imageCalls = 0
    /\ inFollowUp /\ imageTask.pc # "idle" => turn.pc = "awaitImage" /\ obs.text # NULL
    /\ turn.isNewEra /\ turn.pc = "awaitText" => turn.parallel /\ imageTask.pc # "idle"
    /\ turn.isNewEra /\ turn.pc = "awaitImage" => obs.text # NULL /\ imageTask.pc # "idle"

\* a chapter start whose image has settled while its text is still being
\* looked up
C19_Witness ==
    /\ turn.isNewEra /\ turn.pc = "awaitText"
    /\ textTask.pc = "cache"
    /\ imageTask.pc = "resolved" /\ imageTask.value # NoImage

\* C20: a failure of the persistent store is swallowed. A failed read counts as
\* a miss and the request goes on to generation; a failed write leaves the
\* store as it was and the generated text is returned; the text call is
\* rejected only by the backend.
C20_StoreFailureSwallowed ==
    /\ \A i \in 1..Len(obs.stages) :
          obs.stages[i].stage = "CACHE" /\ obs.stages[i].failed =>
              /\ ~obs.stages[i].hit
              /\ IF i = Len(obs.stages) THEN textTask.pc = "generate"
                 ELSE stageNames[i + 1] = "LIVE"
    /\ \A i \in 1..Len(obs.stages) :
          obs.stages[i].stage = "LIVE" /\ obs.stages[i].failed =>
              /\ obs.stages[i].hit /\ obs.cacheWrites = 0
              /\ textTask.value # NULL /\ textTask.pc \in {"resolved", "idle"}
              /\ \A k \in DOMAIN store : \E e \in obs.known : e.key = k
    /\ textTask.pc = "rejected" =>
           obs.stages[Len(obs.stages)] = Stage("LIVE", FALSE, FALSE)

\* the entry is in the store, its read failed, and the text was generated anew
C20_Witness ==
    /\ turnEnded
    /\ stageNames = << "STATIC", "CACHE", "LIVE" >>
    /\ obs.stages[2].failed /\ obs.stages[3].hit
    /\ currentKey \in DOMAIN store /\ \E e \in obs.known : e.key = currentKey
    /\ obs.textCalls = 1 /\ obs.text = "GenTagged"

\* ---- narration
\* C13: a call of generateEinsteinSpeech whose first request failed went on to
\* three requests in all, the first two with the rich accent instruction and
\* the third with the minimal one, and returned absent.
C13_SpeechRetry ==
    heard.last.failed =>
        /\ heard.last.requests = << "rich", "rich", "minimal" >>
        /\ heard.last.base64 = NULL

\* the sessions in flight that are no longer current
staleSessions == {n \in narrations : n.session # speechSessionId}

\* C15: a step of a narration session that is no longer current (a newer
\* session was started, or narration was stopped, while it was in flight)
\* issues no speech request, starts no audio segment, appends no log entry and
\* leaves the narration state alone.
C15_StaleSessionSilent ==
    [][\A n \in staleSessions : n \notin narrations' =>
          /\ heard'.calls = heard.calls
          /\ activeSources' = activeSources
          /\ performanceLogs' = performanceLogs
          /\ isAudioPlaying' = isAudioPlaying
          /\ isSpeechLoading' = isSpeechLoading
          /\ currentlySpeakingId' = currentlySpeakingId]_vars

\* ---- the diagnostic log
\* a sequence in reverse order
newestFirst(s) == [i \in 1..Len(s) |-> s[Len(s) + 1 - i]]

\* C21: the log never holds more than 100 entries, and it holds exactly the
\* most recent appends since the last clear, newest first (the oldest ones are
\* the ones dropped).
C21_LogBounded ==
    probe.op = "log" =>
        /\ Len(performanceLogs) <= 100
        /\ performanceLogs =
              SubSeq(newestFirst(probe.appended), 1, MinOf({100, Len(probe.appended)}))

\* 101 appends after a clear: the first of them has been dropped
C21_Witness ==
    /\ probe.op = "log" /\ probe.total = 102 /\ Len(probe.appended) = 101
    /\ Len(performanceLogs) = 100
    /\ performanceLogs[100] = probe.appended[2]

\* ---- placeholder and role prefix
\* C22: the persistent cache never holds the placeholder sentence that the
\* text dispatcher substitutes for an empty answer of the backend.
C22_PlaceholderNeverCached ==
    \A k \in DOMAIN store : store[k] # "Placeholder"

\* the role-prefix marker of an archive text
ROLE_MARKER ==
    <<"E", "I", "N", "S", "T", "E", "I", "N", ":", " ">>

\* C23: when the static text of a chapter begins with the marker "EINSTEIN: ",
\* the text the chapter-start pipeline returns from the archive does not.
C23_RolePrefixStripped ==
    (/\ turn.isNewEra /\ textTask.pc = "resolved"
     /\ obs.stages = << Stage("STATIC", TRUE, FALSE) >>
     /\ startsWith(Chars(staticLookup[<< "text", turn.era, env >>].text), ROLE_MARKER))
        => ~startsWith(Chars(textTask.value), ROLE_MARKER)

\* ---- the static resolver
\* a call of the resolver has returned
resolved == probe.op = "getFromStaticServer" /\ probe.done

\* what a returned call has logged, whatever it found: one entry
loggedOnce ==
    /\ performanceLogs = << probe.result.log >>
    /\ probe.result.hit =>
          /\ probe.result.log.status = "CACHE_HIT"
          /\ probe.result.names = << probe.result.url >>
          /\ probe.result.url \in Range(trialUrls(probe.type, probe.eraKey, probe.pathname))
    /\ ~probe.result.hit =>
          /\ probe.result.log.status = "ERROR"
          /\ probe.result.text = NULL /\ probe.result.blob = NoBlob

archiveHas(type) == staticLookup[<< type, turn.era, env >>].hit

\* C25: in a chapter start the image is resolved independently of the text.
\* The image call is started for the chapter whatever becomes of the text; it
\* returns the archive's diagram when the archive has one and calls the image
\* backend when not; the text returns the archive's text when the archive has
\* one and goes on to cache and generation when not; and the archive can hold
\* either, both or none.
C25_IndependentModalities ==
    /\ turn.isNewEra /\ turn.pc # "idle" =>
          /\ turn.parallel /\ imageTask.eraKey = turn.era
          /\ imageTask.pc \in {"static", "generate", "resolved"}
    /\ turn.isNewEra /\ imageTask.pc = "resolved" =>
          IF archiveHas("images")
          THEN imageTask.value.kind = "blob" /\ obs.imageCalls = 0
          ELSE imageTask.value.kind # "blob" /\ obs.imageCalls = 1
    /\ turn.isNewEra /\ textTask.pc \in {"resolved", "rejected"} =>
          IF archiveHas("text")
          THEN obs.stages = << Stage("STATIC", TRUE, FALSE) >> /\ obs.textCalls = 0
          ELSE /\ Len(obs.stages) >= 2 /\ ~obs.stages[1].hit
               /\ obs.stages[2].hit \/ obs.textCalls = 1
    /\ \A t \in BOOLEAN, i \in BOOLEAN : \E d \in Deployments :
          /\ staticLookup[<< "text", "Introduction", d >>].hit = t
          /\ staticLookup[<< "images", "Introduction", d >>].hit = i

\* text from the archive, diagram from the backend
C25_Witness ==
    /\ turn.isNewEra /\ turn.pc = "awaitImage"
    /\ obs.stages = << Stage("STATIC", TRUE, FALSE) >> /\ obs.textCalls = 0
    /\ imageTask.pc = "resolved" /\ imageTask.value = DataUrl /\ obs.imageCalls = 1

candidates ==
    LET dirName == IF probe.type = "text" THEN "text" ELSE "images"
        names == namesToTry(probe.type, probe.eraKey)
        root(n) == [dirs |-> << dirName >>, name |-> n]
        base(n) == [dirs |-> probe.pathname.dirs \o << dirName >>, name |-> n]
    IN  << root(names[1]), base(names[1]), root(names[2]), base(names[2]) >>

\* a sequence without the repetitions of its elements
RECURSIVE distinctOf(_)
distinctOf(s) ==
    IF s = <<>> THEN <<>>
    ELSE LET front == distinctOf(SubSeq(s, 1, Len(s) - 1))
             last == s[Len(s)]
         IN  IF last \in Range(front) THEN front ELSE Append(front, last)

\* the response to a candidate passes the resolver's validation
validates(u) ==
    LET response == probe.fetch[u]
    IN  /\ ~response.err /\ response.ok
        /\ IF probe.type = "text"
           THEN ~declaredHtml(response) /\ looksLikeDiscussion(Chars(response.text))
           ELSE isValidImage(response.blob)

\* C27: within one call of the static resolver the candidates are fetched in
\* their fixed order, none twice; a network error or a rejected candidate moves
\* on to the next one, and nothing is fetched after the first candidate that
\* validates.
C27_FetchOrder ==
    resolved =>
        LET tried == probe.result.tried
            all == distinctOf(candidates)
        IN  /\ Len(tried) <= Len(all) /\ tried = SubSeq(all, 1, Len(tried))
            /\ \A i \in 1..(Len(tried) - 1) : ~validates(tried[i])
            /\ probe.result.hit =>
                  validates(tried[Len(tried)]) /\ probe.result.url = tried[Len(tried)]
            /\ ~probe.result.hit =>
                  tried = all /\ \A i \in 1..Len(tried) : ~validates(tried[i])

\* a network error, then a 404, then a file that validates: the fourth
\* candidate is not fetched
C27_Witness ==
    /\ resolved /\ probe.result.hit
    /\ Len(distinctOf(candidates)) = 4 /\ Len(probe.result.tried) = 3
    /\ probe.fetch[candidates[1]] = NetworkError
    /\ probe.fetch[candidates[2]] = Http404
    /\ validates(candidates[4])

\* what C28 states of a response to a text candidate
acceptable(response) ==
    LET body == trim(Chars(response.text))
        lower(n) == toLowerCase(SubSeq(body, 1, n))
    IN  /\ ~response.err /\ response.ok
        /\ ~includes(toLowerCase(Chars(response.ctype)),
                     << "t", "e", "x", "t", "/", "h", "t", "m", "l" >>)
        /\ Len(body) > 10
        /\ SubSeq(body, 1, 2) # << "<", "!" >>
        /\ lower(5) # << "<", "h", "t", "m", "l" >>

\* C28: a static text candidate is accepted exactly when its status is OK, its
\* declared content type does not contain text/html, and its body, trimmed, is
\* longer than 10 characters and starts neither with "<!" nor, in any case of
\* the letters, with "<html"; the artifact returned is the body as fetched.
C28_TextAcceptance ==
    resolved /\ probe.type = "text" =>
        LET tried == probe.result.tried
        IN  /\ \A i \in 1..(Len(tried) - 1) : ~acceptable(probe.fetch[tried[i]])
            /\ probe.result.hit <=> acceptable(probe.fetch[tried[Len(tried)]])
            /\ probe.result.hit =>
                  probe.result.text = probe.fetch[tried[Len(tried)]].text

\* an upper-case html tag after white space, a body of nine characters and an
\* empty body are passed over, the archive text is accepted
C28_Witness ==
    /\ resolved /\ probe.type = "text" /\ probe.result.hit
    /\ Len(probe.result.tried) = 4
    /\ probe.fetch[candidates[1]].text = "HtmlTag" /\ probe.fetch[candidates[1]].ok
    /\ probe.fetch[candidates[2]].text = "Tiny" /\ probe.fetch[candidates[2]].ok
    /\ probe.fetch[candidates[3]].text = "" /\ probe.fetch[candidates[3]].ok
    /\ probe.result.text = "ArchiveText"

\* ---- narration sessions
\* the sessions of narrations that take a step and end with it
endingSessions == {n \in narrations : \A m \in narrations' : m.session # n.session}

\* C29: the session counter never decreases. A turn that starts, a playSpeech
\* call that starts a narration or stops the one in progress, and the end of a
\* narration session that is still current each increment it; a session in
\* flight is current (its captured value equals the counter) only until the
\* counter changes, and never again after that.
C29_SessionCounter ==
    [][/\ speechSessionId' >= speechSessionId
       /\ run'.turns # run.turns => speechSessionId' = speechSessionId + 1
       /\ heard'.plays # heard.plays => speechSessionId' = speechSessionId + 1
       /\ \A n \in endingSessions :
              n.session = speechSessionId => speechSessionId' = speechSessionId + 1
       /\ \A n \in narrations :
              /\ n.session <= speechSessionId
              /\ n.session # speechSessionId => n.session # speechSessionId'
              /\ speechSessionId' # speechSessionId => n.session # speechSessionId'
       /\ \A n \in narrations' : n.session <= speechSessionId']_vars

\* a narration was started while another was in flight, after two turns: the
\* older session is stale, the newer is current
C29_Witness ==
    /\ run.turns = 2 /\ heard.plays = 2 /\ speechSessionId = 4
    /\ \E n \in narrations, m \in narrations :
          n.session = 3 /\ n.pc = "speech" /\ m.session = 4 /\ m.pc = "speech"

\* the record of the session of n after the step, if the session goes on
successors(n) == {m \in narrations' : m.session = n.session}

\* C30: a narration session handles its paragraphs one at a time in the order
\* of the text. It requests the speech of the first paragraph, then plays it,
\* and requests the speech of paragraph i + 1 only when the playback of
\* paragraph i has ended; it makes no request while a source of its own plays;
\* and it ends with the first paragraph whose synthesis returns absent.
C30_OneParagraphAtATime ==
    [][/\ \A n \in narrations, m \in narrations : m.session = n.session => m = n
       /\ \A n \in narrations :
              /\ n.i \in 1..Len(paragraphsOf[n.text])
              /\ n.pc = "resume" => n.i = 1
              /\ (\E k \in 1..Len(activeSources) : activeSources[k].session = n.session)
                    => n.pc = "playing" /\ sourceOf(n) \in Range(activeSources)
              /\ \A m \in successors(n) :
                    \/ m = n
                    \/ n.pc = "resume" /\ m.pc = "speech" /\ m.i = 1
                    \/ n.pc = "speech" /\ m.pc = "playing" /\ m.i = n.i
                          /\ heard'.last.base64 # NULL
                    \/ n.pc = "playing" /\ m.pc = "speech" /\ m.i = n.i + 1
                          /\ sourceOf(n) \notin Range(activeSources')
              /\ n.pc = "speech" /\ n \notin narrations' /\ heard'.last.base64 = NULL
                    => successors(n) = {} /\ heard'.calls = heard.calls
       /\ heard'.calls \in {heard.calls, heard.calls + 1}
       /\ heard'.calls = heard.calls + 1 =>
              \E m \in narrations' \ narrations : m.pc = "speech"]_vars

\* the second paragraph is requested after the first was played to its end
C30_Witness ==
    \E n \in narrations :
        /\ n.session = speechSessionId /\ n.pc = "speech" /\ n.i = 2
        /\ activeSources = <<>> /\ heard.calls = 2 /\ heard.last.base64 = "audio"

\* ---- the store handle
\* C31: the store is opened at most once: over the whole run no more than one
\* open request is issued.
C31_SingleOpen == run.opens <= 1

\* ---- the speech back-off
\* C32: a call of generateEinsteinSpeech whose request was rejected waited
\* before its next attempt, 1000 ms after the first failure and 2000 ms after
\* the second, and did not wait after a third.
C32_BackOff ==
    heard.last.threw => heard.last.waits \in {<< 1000 >>, << 1000, 2000 >>}

\* ---- log notifications
\* C33: a step that appends to the log dispatches exactly one
\* performance_log_updated event, whose detail is the entry now at the head of
\* the log; a step that clears the log leaves it empty and dispatches nothing.
C33_NotifyOnAppend ==
    [][IF probe'.total = probe.total + 1
       THEN /\ Len(probe'.events) = Len(probe.events) + 1
            /\ SubSeq(probe'.events, 1, Len(probe.events)) = probe.events
            /\ probe'.events[Len(probe'.events)] =
                  [type |-> "performance_log_updated", detail |-> performanceLogs'[1]]
       ELSE /\ performanceLogs' = <<>>
            /\ probe'.events = probe.events]_vars

\* three appends were notified and the log was then cleared
C33_Witness ==
    /\ probe.op = "log" /\ probe.total = 3 /\ Len(probe.events) = 3
    /\ probe.events[3].detail.label = 3
    /\ performanceLogs = <<>>

\* ---- active sources
\* C34: activeSources never holds more than one source, and a source it holds
\* was started by the narration session that is current.
C34_OneActiveSource ==
    /\ Len(activeSources) <= 1
    /\ \A k \in 1..Len(activeSources) : activeSources[k].session = speechSessionId

\* the current session plays a paragraph while an older session, stopped in
\* the middle of its playback, has not yet seen its source end
C34_Witness ==
    \E n \in narrations, m \in narrations :
        /\ n.session < speechSessionId /\ n.pc = "playing"
        /\ m.session = speechSessionId /\ m.pc = "playing"
        /\ activeSources = << sourceOf(m) >>

\* ---- narration and loading
\* C36: while a turn is loading nothing is narrated: isLoading implies that
\* isAudioPlaying is false and activeSources is empty; and no playSpeech call
\* is accepted while isLoading or isImageLoading is set.
C36_LoadingExcludesNarration ==
    [][/\ isLoading' => ~isAudioPlaying' /\ activeSources' = <<>>
       /\ isLoading \/ isImageLoading =>
             /\ heard'.plays = heard.plays
             /\ \A n \in narrations' \ narrations : \E m \in narrations : m.session = n.session
             /\ activeSources' = <<>>]_vars

\* a turn was started while a paragraph was playing: the turn is loading, the
\* session it stopped is still waiting for the end of its source
C36_Witness ==
    /\ isLoading /\ ~isAudioPlaying /\ activeSources = <<>>
    /\ \E n \in narrations : n.pc = "playing" /\ n.session < speechSessionId

\* ---- the end of a session
\* whether the narration session numbered s is in flight
inFlight(s) == \E n \in narrations : n.session = s

\* C37: every narration session ends. The step with which a session ends (its
\* last paragraph finished, a synthesis returned absent, or a step threw)
\* leaves isAudioPlaying false, isSpeechLoading false and currentlySpeakingId
\* null when the session is still current, and leaves the three as they
\* were when it is not.
C37_SessionEndsCleared ==
    /\ [][\A n \in endingSessions :
            IF n.session = speechSessionId
            THEN ~isAudioPlaying' /\ ~isSpeechLoading' /\ currentlySpeakingId' = {}
            ELSE << isAudioPlaying', isSpeechLoading', currentlySpeakingId' >> =
                    << isAudioPlaying, isSpeechLoading, currentlySpeakingId >>]_vars
    /\ \A s \in 1..(Len(ListenerTurns) + 2 * MaxPlays) : inFlight(s) ~> ~inFlight(s)

\* a narration ran through both paragraphs of its text and ended
C37_Witness ==
    /\ heard.plays = 1 /\ heard.calls = 2 /\ heard.last.base64 = "audio"
    /\ narrations = {}
    /\ ~isAudioPlaying /\ ~isSpeechLoading /\ currentlySpeakingId = {}

\* ---- the narration button as a toggle
\* C38: a playSpeech call made while a message is being narrated (audio plays
\* or is being synthesized) either is for another message, which becomes the
\* narrated one, or is for the narrated message: then it stops the narration,
\* issues no speech request, starts no session and leaves currentlySpeakingId
\* null.
C38_ToggleStops ==
    [][/\ heard'.plays = heard.plays + 1
       /\ currentlySpeakingId # {}
       /\ isAudioPlaying \/ isSpeechLoading
       => \/ /\ currentlySpeakingId' # {}
             /\ currentlySpeakingId' # currentlySpeakingId
          \/ /\ currentlySpeakingId' = {}
             /\ heard'.calls = heard.calls
             /\ narrations' = narrations
             /\ speechSessionId' = speechSessionId + 1
             /\ ~isAudioPlaying' /\ ~isSpeechLoading' /\ activeSources' = <<>>]_vars

\* the second call was for the message whose first paragraph was being
\* synthesized: one speech request in all, and nothing is narrated
C38_Witness ==
    /\ heard.plays = 2 /\ heard.calls = 1 /\ currentlySpeakingId = {}
    /\ \E n \in narrations :
          /\ narrations = {n}
          /\ n.pc = "speech" /\ n.i = 1 /\ n.session = speechSessionId - 1

\* ---- a chapter start that fails
\* the turn that ended was a chapter start whose text generation threw
chapterStartFailed ==
    /\ turnEnded /\ turn.isNewEra
    /\ Len(obs.stages) > 0
    /\ obs.stages[Len(obs.stages)].stage = "LIVE" /\ ~obs.stages[Len(obs.stages)].hit

\* C39: after a chapter start whose text generation threw, currentEra,
\* messages and lastImage are what they were before the call.
C39_FailedStartKeepsState ==
    chapterStartFailed =>
        /\ currentEra = obs.prev.currentEra
        /\ messages = obs.prev.messages
        /\ lastImage = obs.prev.image

====
